---- MODULE Spec2Model ----
(***************************************************************************)
(* Anycubic Wifi integration: the polling bridge (data_bridge.py), the     *)
(* printer adapter with its response classifier and extras parser          *)
(* (adapter_fascade.py), over the uart_wifi transport whose replies and    *)
(* faults are the inputs of the model.                                     *)
(***************************************************************************)
EXTENDS Integers, Sequences, FiniteSets, TLC

VARIABLES
    connection_retries,       \* AnycubicDataBridge._connection_retries
    reported_status_extras,   \* AnycubicDataBridge._reported_status_extras: the dict of the class,
                              \* which no bridge ever rebinds to a dict of its own
    convert_seconds,          \* AnycubicDataBridge._convert_seconds
    config_entry,             \* AnycubicDataBridge._config_entry (data, options)
    telnet_socket,            \* MonoXAPIAdapter.telnet_socket: "open" or "closed"
    last,                     \* the last operation: its verb, transport outcome and result
    fail_run,                 \* polls since the last poll that returned a fresh status record
    last_good,                \* the record the last successful poll returned
    retries_before,           \* _connection_retries when the last operation began
    hard_failures,            \* UpdateFailed raised since the last poll that returned a fresh record
    other_bridge,             \* a second AnycubicDataBridge, for another printer
    held,                     \* the dict a consumer got from get_last_status_extras()
    state_attributes,         \* what the last extra_state_attributes read returned
    find_call,                \* a call of _find_response_of_type: its arguments and result
    parse_call,               \* calls of _parse_extras on one record object, and their results
    duration_call,            \* a call of _seconds_to_hhmmss: its argument and result
    dump_call,                \* a call of safe_dump: its argument and result
    data,                     \* DataUpdateCoordinator.data: what the last update that returned handed back
    setup_call,               \* a call of async_setup_entry: the transport outcome and the result
    flow_call,                \* a run of the config flow through async_step_user: its inputs and result
    getstatus_call            \* a call of MonoXAPI.getstatus of api.py: what the transport did and the result

vars == <<connection_retries, reported_status_extras, convert_seconds,
          config_entry, telnet_socket, last, fail_run, last_good, retries_before,
          hard_failures, other_bridge, held, state_attributes, find_call, parse_call,
          duration_call,
          dump_call,
          data,
          setup_call,
          flow_call,
          getstatus_call>>

(***************************************************************************)
(* Bounds of the model.                                                    *)
(***************************************************************************)
MaxFailRun == 7

(***************************************************************************)
(* Python values.  Every value is a record whose field names depend on its *)
(* type, so values of different types are unequal.  A str is the sequence  *)
(* of its characters; a float is a reduced fraction.                       *)
(***************************************************************************)
None == [t |-> "None"]
PyInt(n) == [t |-> "int", i |-> n]
PyStr(s) == [t |-> "str", s |-> s]

Abs(n) == IF n < 0 THEN -n ELSE n

RECURSIVE Gcd(_, _)
Gcd(a, b) == IF b = 0 THEN a ELSE Gcd(b, a % b)

PyFloat(n, d) ==
    LET g == Gcd(Abs(n), d)
    IN  IF n = 0 THEN [t |-> "float", num |-> 0, den |-> 1]
        ELSE [t |-> "float", num |-> n \div g, den |-> d \div g]

\* Truncation toward zero, as int() of a float.
Trunc(n, d) == IF n >= 0 THEN n \div d ELSE -((-n) \div d)

Digits == <<"0", "1", "2", "3", "4", "5", "6", "7", "8", "9">>
IsDigit(c) == \E k \in 1..10 : Digits[k] = c
DigitVal(c) == (CHOOSE k \in 1..10 : Digits[k] = c) - 1

AllDigits(s) == Len(s) > 0 /\ \A k \in 1..Len(s) : IsDigit(s[k])

RECURSIVE DigitsVal(_)
DigitsVal(s) ==
    IF Len(s) = 0 THEN 0
    ELSE DigitsVal(SubSeq(s, 1, Len(s) - 1)) * 10 + DigitVal(s[Len(s)])

RECURSIVE Pow10(_)
Pow10(n) == IF n = 0 THEN 1 ELSE 10 * Pow10(n - 1)

(***************************************************************************)
(* A computation either returns a value or raises.                         *)
(***************************************************************************)
Ok(v) == [k |-> "return", exc |-> "None", v |-> v]
Err(e) == [k |-> "raise", exc |-> e, v |-> None]

\* int(x): a str must be an optionally signed run of digits.
int(x) ==
    CASE x.t = "int" -> Ok(x.i)
      [] x.t = "float" -> Ok(Trunc(x.num, x.den))
      [] x.t = "str" ->
            IF AllDigits(x.s) THEN Ok(DigitsVal(x.s))
            ELSE IF Len(x.s) > 1 /\ x.s[1] = "-" /\ AllDigits(Tail(x.s))
                 THEN Ok(-DigitsVal(Tail(x.s)))
                 ELSE Err("ValueError")
      [] OTHER -> Err("TypeError")

PointAt(s) == {k \in 1..Len(s) : s[k] = "."}

\* float(x): a str must be digits with at most one decimal point.
float(x) ==
    CASE x.t = "int" -> Ok(PyFloat(x.i, 1))
      [] x.t = "float" -> Ok(x)
      [] x.t = "str" ->
            IF AllDigits(x.s) THEN Ok(PyFloat(DigitsVal(x.s), 1))
            ELSE IF Cardinality(PointAt(x.s)) = 1
                 THEN LET p == CHOOSE k \in PointAt(x.s) : TRUE
                          whole == SubSeq(x.s, 1, p - 1)
                          frac == SubSeq(x.s, p + 1, Len(x.s))
                      IN  IF /\ Len(whole) + Len(frac) > 0
                             /\ \A k \in 1..Len(whole) : IsDigit(whole[k])
                             /\ \A k \in 1..Len(frac) : IsDigit(frac[k])
                          THEN Ok(PyFloat(DigitsVal(whole \o frac), Pow10(Len(frac))))
                          ELSE Err("ValueError")
                 ELSE Err("ValueError")
      [] OTHER -> Err("TypeError")

\* str.replace(old, ""): every occurrence of old removed, left to right.
RECURSIVE Remove(_, _)
Remove(s, old) ==
    IF Len(s) < Len(old) THEN s
    ELSE IF SubSeq(s, 1, Len(old)) = old
         THEN Remove(SubSeq(s, Len(old) + 1, Len(s)), old)
         ELSE <<s[1]>> \o Remove(Tail(s), old)

\* str.split(sep) for a one-character separator: the list of the parts.
RECURSIVE Split(_, _)
Split(s, sep) ==
    IF \A k \in 1..Len(s) : s[k] # sep THEN <<s>>
    ELSE LET p == CHOOSE k \in 1..Len(s) :
                     s[k] = sep /\ \A j \in 1..(k - 1) : s[j] # sep
         IN  <<SubSeq(s, 1, p - 1)>> \o Split(SubSeq(s, p + 1, Len(s)), sep)

TwoDigits(n) == <<Digits[(n \div 10) + 1], Digits[(n % 10) + 1]>>

\* A rendering that counts the hours on past the end of the day.
strftime_gmtime_no_wrap(seconds) ==
    PyStr(TwoDigits(seconds \div 3600) \o <<":">>
          \o TwoDigits((seconds % 3600) \div 60) \o <<":">>
          \o TwoDigits(seconds % 60))

\* time.strftime("%H:%M:%S", time.gmtime(seconds)): the time of day.
strftime_gmtime(seconds) ==
    PyStr(TwoDigits((seconds % 86400) \div 3600) \o <<":">>
          \o TwoDigits((seconds % 3600) \div 60) \o <<":">>
          \o TwoDigits(seconds % 60))

\* hhmmss of the seconds, unless int() raised.
Formatted(seconds) ==
    IF seconds.k = "raise" THEN seconds ELSE Ok(strftime_gmtime(seconds.v))

seconds_to_hhmmss(raw_value) == Formatted(int(raw_value))

(***************************************************************************)
(* const.py                                                                *)
(***************************************************************************)
TYPE_STRING == "str"
TYPE_TIME == "time"
TYPE_INT == "int"
TYPE_ML == "mL"
TYPE_FLOAT == "float"
TYPE_FILE == "file"
INTERNAL_FILE == "Internal File Name"
ATTR_REMAINING_LAYERS == "Layers Remaining"
ATTR_TOTAL_TIME == "Total Print Time"
API_STATUS == "status"
API_SECONDS_ELAPSE == "seconds_elapse"
API_TILDE == <<"~">>
API_VALUE_SPLIT_CHAR == "/"
CONF_HOST == "host"
CONF_MODEL == "model"
OPT_NO_EXTRA_DATA == "no_extras"
OPT_HIDE_IP == "hide_ip"
OPT_HIDE_EXTRA_SENSORS == "hide_extra_sensors"
CONVERT_SECONDS_MODEL == <<"M", "o", "n", "o", " ", "X", " ", "6", "K">>

\* [sensor value name, display name, data type, unit]
ATTR_LOOKUP_TABLE == <<
    <<"file", "file", TYPE_FILE, "">>,
    <<"current_layer", "Current Layer", TYPE_INT, "">>,
    <<"total_layers", "Total Layers", TYPE_INT, "">>,
    <<"layer_height", "Layer Height", TYPE_FLOAT, "mm">>,
    <<"percent_complete", "% Complete", TYPE_INT, "%">>,
    <<"seconds_elapse", "Time Elapsed", TYPE_TIME, "h:min:s">>,
    <<"seconds_remaining", "Time Remaining", TYPE_TIME, "h:min:s">>,
    <<"total_volume", "Print Volume", TYPE_ML, "mL">>,
    <<"mode", "Mode", TYPE_STRING, "">>,
    <<"unknown1", "unknown_1", TYPE_FLOAT, "">>,
    <<"unknown2", "unknown_2", TYPE_STRING, "">>,
    <<ATTR_REMAINING_LAYERS, ATTR_REMAINING_LAYERS, TYPE_TIME, "">>,
    <<ATTR_TOTAL_TIME, ATTR_TOTAL_TIME, TYPE_TIME, "h:min:s">> >>

(***************************************************************************)
(* Response objects of the transport: a MonoXStatus or a MonoXSysInfo with *)
(* its attributes, and the absent object.                                  *)
(***************************************************************************)
MonoXStatus(attrs) == [type |-> "MonoXStatus", attrs |-> attrs]
MonoXSysInfo(attrs) == [type |-> "MonoXSysInfo", attrs |-> attrs]
NoObject == [type |-> "None", attrs |-> <<>>]

hasattr(obj, name) == name \in DOMAIN obj.attrs

\* STATUS_OFFLINE = MonoXStatus(["getstatus", "offline"])
STATUS_OFFLINE ==
    MonoXStatus([a \in {API_STATUS} |-> PyStr(<<"o", "f", "f", "l", "i", "n", "e">>)])

(***************************************************************************)
(* dict                                                                    *)
(***************************************************************************)
EmptyDict == <<>>
Entry(key, value) == [x \in {key} |-> value]

\* dict.update(other)
Update(d, other) ==
    [x \in (DOMAIN d) \cup (DOMAIN other) |->
        IF x \in DOMAIN other THEN other[x] ELSE d[x]]

(***************************************************************************)
(* _parse_extras                                                           *)
(***************************************************************************)
\* extras[name] = the coerced value, unless the coercion raised.
Stored(name, coerced) ==
    IF coerced.k = "raise" THEN coerced ELSE Ok(Entry(name, coerced.v))

\* The int object of a number, unless int() raised.
AsPyInt(number) ==
    IF number.k = "raise" THEN number ELSE Ok(PyInt(number.v))

\* A match statement whose file arm stores the two parts the other way round.
Coerce_file_swapped(name, data_type, raw_value) ==
    CASE data_type = TYPE_FILE ->
            IF raw_value.t # "str" THEN Err("AttributeError")
            ELSE LET parts == Split(raw_value.s, API_VALUE_SPLIT_CHAR)
                 IN  IF Len(parts) = 2
                     THEN Ok(Update(Entry(name, PyStr(parts[2])),
                                    Entry(INTERNAL_FILE, PyStr(parts[1]))))
                     ELSE Err("ValueError")
      [] data_type = TYPE_FLOAT ->
            Stored(name, float(raw_value))
      [] data_type = TYPE_ML ->
            IF raw_value.t # "str" THEN Err("AttributeError")
            ELSE Ok(Entry(name, PyStr(Remove(Remove(raw_value.s, <<"m", "L">>),
                                             API_TILDE))))
      [] data_type = TYPE_INT ->
            Stored(name, AsPyInt(int(raw_value)))
      [] data_type = TYPE_TIME ->
            Stored(name, seconds_to_hhmmss(raw_value))
      [] OTHER -> Ok(Entry(name, raw_value))

\* One arm of the match statement: the entries it stores, or what it raises.
Coerce(name, data_type, raw_value) ==
    CASE data_type = TYPE_FILE ->
            IF raw_value.t # "str" THEN Err("AttributeError")
            ELSE LET parts == Split(raw_value.s, API_VALUE_SPLIT_CHAR)
                 IN  IF Len(parts) = 2
                     THEN Ok(Update(Entry(name, PyStr(parts[1])),
                                    Entry(INTERNAL_FILE, PyStr(parts[2]))))
                     ELSE Err("ValueError")
      [] data_type = TYPE_FLOAT ->
            Stored(name, float(raw_value))
      [] data_type = TYPE_ML ->
            IF raw_value.t # "str" THEN Err("AttributeError")
            ELSE Ok(Entry(name, PyStr(Remove(Remove(raw_value.s, <<"m", "L">>),
                                             API_TILDE))))
      [] data_type = TYPE_INT ->
            Stored(name, AsPyInt(int(raw_value)))
      [] data_type = TYPE_TIME ->
            Stored(name, seconds_to_hhmmss(raw_value))
      [] OTHER -> Ok(Entry(name, raw_value))

\* The body of the loop for one row of the table: only ValueError is caught.
\* except ValueError: the raw value is stored under the display name.
ExceptValueError(coerced, name, raw_value) ==
    IF coerced.k = "raise" /\ coerced.exc = "ValueError"
    THEN Ok(Entry(name, raw_value))
    ELSE coerced

ParseRow(raw_extras, row) ==
    IF hasattr(raw_extras, row[1])
    THEN ExceptValueError(Coerce(row[2], row[3], raw_extras.attrs[row[1]]),
                          row[2], raw_extras.attrs[row[1]])
    ELSE Ok(Entry(row[2], None))

\* The loop over rows i..Len(ATTR_LOOKUP_TABLE), starting from extras.
RECURSIVE ParseRows(_, _, _)
ParseRowsFrom(raw_extras, extras, i, row) ==
    IF row.k = "raise" THEN row
    ELSE ParseRows(raw_extras, Update(extras, row.v), i + 1)

ParseRows(raw_extras, extras, i) ==
    IF i > Len(ATTR_LOOKUP_TABLE) THEN Ok(extras)
    ELSE ParseRowsFrom(raw_extras, extras, i, ParseRow(raw_extras, ATTR_LOOKUP_TABLE[i]))

\* A difference taken the other way round.
LayersLeft_swapped(total, current) ==
    IF total.k = "raise" THEN total
    ELSE IF current.k = "raise" THEN current
    ELSE Ok(PyInt(current.v - total.v))

\* int(total - current), unless one of the two int() calls raised.
LayersLeft(total, current) ==
    IF total.k = "raise" THEN total
    ELSE IF current.k = "raise" THEN current
    ELSE Ok(PyInt(total.v - current.v))

\* A total time that leaves the elapsed time out.
TimeSum_remaining_only(remain, elapsed) ==
    IF remain.k = "raise" THEN remain
    ELSE IF elapsed.k = "raise" THEN elapsed
    ELSE seconds_to_hhmmss(PyInt(remain.v))

\* _seconds_to_hhmmss(elapsed + remain), unless one of the two int() calls raised.
TimeSum(remain, elapsed) ==
    IF remain.k = "raise" THEN remain
    ELSE IF elapsed.k = "raise" THEN elapsed
    ELSE seconds_to_hhmmss(PyInt(elapsed.v + remain.v))

\* The calculated Remaining Layers sensor.
RemainingLayers(raw_extras) ==
    IF hasattr(raw_extras, "current_layer") /\ hasattr(raw_extras, "total_layers")
    THEN LayersLeft(int(raw_extras.attrs["total_layers"]),
                    int(raw_extras.attrs["current_layer"]))
    ELSE Ok(None)

\* The calculated total time sensor.
TotalTime(raw_extras) ==
    IF hasattr(raw_extras, "seconds_elapse") /\ hasattr(raw_extras, "seconds_remaining")
    THEN TimeSum(int(raw_extras.attrs["seconds_remaining"]),
                 int(raw_extras.attrs["seconds_elapse"]))
    ELSE Ok(None)

\* The result: returned or raised, the extras, and the record as the call leaves it.
ParseResult(k, exc, extras, raw) == [k |-> k, exc |-> exc, extras |-> extras, raw |-> raw]

\* raw_extras.__dict__[API_SECONDS_ELAPSE] = seconds_elapsed
WithElapsed(raw_extras, seconds) ==
    IF seconds.k = "raise" THEN ParseResult("raise", seconds.exc, EmptyDict, raw_extras)
    ELSE ParseResult("return", "None", EmptyDict,
             [raw_extras EXCEPT !.attrs[API_SECONDS_ELAPSE] = PyFloat(seconds.v, 60)])

\* The conversion of the elapsed time, written back into the record.
ConvertElapsed(raw_extras, convert) ==
    IF convert /\ hasattr(raw_extras, API_SECONDS_ELAPSE)
    THEN WithElapsed(raw_extras, int(raw_extras.attrs[API_SECONDS_ELAPSE]))
    ELSE ParseResult("return", "None", EmptyDict, raw_extras)

\* The end of the parse: the two calculated sensors added to the rows.
ParseEnd(raw_extras, rows, layers, total) ==
    IF rows.k = "raise" THEN ParseResult("raise", rows.exc, EmptyDict, raw_extras)
    ELSE IF layers.k = "raise" THEN ParseResult("raise", layers.exc, EmptyDict, raw_extras)
    ELSE IF total.k = "raise" THEN ParseResult("raise", total.exc, EmptyDict, raw_extras)
    ELSE ParseResult("return", "None",
             Update(Update(rows.v, Entry(ATTR_REMAINING_LAYERS, layers.v)),
                    Entry(ATTR_TOTAL_TIME, total.v)),
             raw_extras)

\* The parse after the conversion step.
ParseConverted(converted) ==
    IF converted.k = "raise" THEN converted
    ELSE ParseEnd(converted.raw, ParseRows(converted.raw, EmptyDict, 1),
                  RemainingLayers(converted.raw), TotalTime(converted.raw))

\* A parse that does not look for the status attribute first.
parse_extras_without_status_test(raw_extras, convert) ==
    ParseConverted(ConvertElapsed(raw_extras, convert))

parse_extras(raw_extras, convert) ==
    IF ~hasattr(raw_extras, API_STATUS)
    THEN ParseResult("return", "None", EmptyDict, raw_extras)
    ELSE ParseConverted(ConvertElapsed(raw_extras, convert))

(***************************************************************************)
(* Exceptions: each class with the classes it is an instance of.           *)
(***************************************************************************)
Bases(exc) ==
    CASE exc = "ConnectionRefusedError" -> {"ConnectionRefusedError", "ConnectionError", "OSError"}
      [] exc = "ConnectionResetError" -> {"ConnectionResetError", "ConnectionError", "OSError"}
      [] exc = "TimeoutError" -> {"TimeoutError", "OSError"}
      [] exc = "AnycubicMonoXAPILevel" -> {"AnycubicMonoXAPILevel", "AnycubicException"}
      [] OTHER -> {exc}

\* An except clause naming the classes catches exc.
Catches(classes, exc) == Bases(exc) \cap classes # {}

(***************************************************************************)
(* The transport (uart_wifi): what send_request does is an input.  It      *)
(* either raises a fault or delivers a response: one decoded object, a     *)
(* list of decoded objects, or nothing.                                    *)
(***************************************************************************)
TransportFaults ==
    {"ConnectionException", "ConnectionRefusedError", "ConnectionResetError",
     "TimeoutError", "OSError", "RuntimeError"}

Single(obj) == [shape |-> "obj", items |-> <<obj>>]
Batch(items) == [shape |-> "list", items |-> items]
Nothing == [shape |-> "None", items |-> <<>>]

Delivered(response) == [k |-> "return", exc |-> "None", response |-> response]
Fault(exc) == [k |-> "raise", exc |-> exc, response |-> Nothing]

StatusStop ==
    MonoXStatus([a \in {"status"} |-> PyStr(<<"s", "t", "o", "p">>)])

StatusPrint ==
    MonoXStatus(
        "status" :> PyStr(<<"p", "r", "i", "n", "t">>)
        @@ "file" :> PyStr(<<"a", ".", "p", "w", "m", "b", "/", "b", ".", "p", "w", "m", "b">>)
        @@ "total_layers" :> PyStr(<<"1", "0", "0">>)
        @@ "percent_complete" :> PyStr(<<"1", "0">>)
        @@ "current_layer" :> PyStr(<<"5">>)
        @@ "seconds_elapse" :> PyInt(7200)
        @@ "seconds_remaining" :> PyStr(<<"3", "6", "0", "0">>)
        @@ "total_volume" :> PyStr(<<"1", "2", "~", "m", "L">>)
        @@ "mode" :> PyStr(<<"U", "V">>)
        @@ "unknown1" :> PyStr(<<"0", ".", "0", "5">>)
        @@ "layer_height" :> PyStr(<<"0", ".", "0", "5">>)
        @@ "unknown2" :> PyStr(<<"0">>))

\* A record without the internal file name and without a layer height.
StatusPause ==
    MonoXStatus(
        "status" :> PyStr(<<"p", "a", "u", "s", "e">>)
        @@ "file" :> PyStr(<<"c", ".", "p", "w", "m", "b">>)
        @@ "total_layers" :> PyStr(<<"4", "0">>)
        @@ "current_layer" :> PyStr(<<"4", "0">>)
        @@ "seconds_elapse" :> PyStr(<<"9", "0">>)
        @@ "seconds_remaining" :> PyStr(<<"0">>))

\* A record whose layer count is not a number.
StatusBad ==
    MonoXStatus(
        "status" :> PyStr(<<"p", "r", "i", "n", "t">>)
        @@ "total_layers" :> PyStr(<<"a", "b", "c">>)
        @@ "current_layer" :> PyStr(<<"1">>))

SysInfo ==
    MonoXSysInfo(
        "model" :> PyStr(<<"P", "h", "o", "t", "o", "n">>)
        @@ "firmware" :> PyStr(<<"V", "0", ".", "1">>)
        @@ "serial" :> PyStr(<<"0", "0", "0", "1">>))

Responses ==
    {Single(StatusStop), Single(StatusPrint), Single(SysInfo), Nothing,
     Batch(<<>>), Batch(<<SysInfo>>), Batch(<<SysInfo, StatusPause>>),
     Batch(<<StatusBad>>), Batch(<<StatusPrint, StatusStop>>)}

TransportOutcomes ==
    {Fault(e) : e \in TransportFaults} \cup {Delivered(r) : r \in Responses}

(***************************************************************************)
(* _find_response_of_type: the first object of the expected type, or       *)
(* False (found = FALSE).  Iterating what is not a list raises TypeError.  *)
(***************************************************************************)
Found(obj) == [k |-> "return", exc |-> "None", found |-> TRUE, obj |-> obj]
NotFound == [k |-> "return", exc |-> "None", found |-> FALSE, obj |-> NoObject]
FindRaises(exc) == [k |-> "raise", exc |-> exc, found |-> FALSE, obj |-> NoObject]

\* for item in response: from item i on.
RECURSIVE ScanFrom(_, _, _)
ScanFrom(items, i, expected_type) ==
    IF i > Len(items) THEN NotFound
    ELSE IF items[i].type = expected_type THEN Found(items[i])
    ELSE ScanFrom(items, i + 1, expected_type)

\* Mutant: only the first item of the reply is looked at.
find_response_of_type_first_item(response, expected_type) ==
    IF response.shape = "obj" /\ response.items[1].type = expected_type
    THEN Found(response.items[1])
    ELSE IF response.shape # "list" THEN FindRaises("TypeError")
    ELSE IF Len(response.items) > 0 /\ response.items[1].type = expected_type
    THEN Found(response.items[1])
    ELSE NotFound

find_response_of_type(response, expected_type) ==
    IF response.shape = "obj" /\ response.items[1].type = expected_type
    THEN Found(response.items[1])
    ELSE IF response.shape # "list" THEN FindRaises("TypeError")
    ELSE ScanFrom(response.items, 1, expected_type)

(***************************************************************************)
(* MonoXAPIAdapter.get_current_status.  The result is the pair (status,    *)
(* extras), or (False, False) with found = FALSE, or the exception raised, *)
(* together with the state the call leaves the socket in.                  *)
(***************************************************************************)
StatusResult(k, exc, found, status, extras, socket) ==
    [k |-> k, exc |-> exc, found |-> found, status |-> status,
     extras |-> extras, socket |-> socket]

\* if status: the extras are parsed unless the option excludes them.
StatusParsed(parsed) ==
    IF parsed.k = "raise"
    THEN StatusResult("raise", parsed.exc, FALSE, NoObject, EmptyDict, "open")
    ELSE StatusResult("return", "None", TRUE, parsed.raw, parsed.extras, "open")

\* An adapter that parses the extras whatever the option says.
StatusClassified_always_parsing(status, convert, no_extras) ==
    IF status.k = "raise"
    THEN StatusResult("raise", status.exc, FALSE, NoObject, EmptyDict, "open")
    ELSE IF ~status.found
    THEN StatusResult("return", "None", FALSE, NoObject, EmptyDict, "open")
    ELSE StatusParsed(parse_extras(status.obj, convert))

StatusClassified(status, convert, no_extras) ==
    IF status.k = "raise"
    THEN StatusResult("raise", status.exc, FALSE, NoObject, EmptyDict, "open")
    ELSE IF ~status.found
    THEN StatusResult("return", "None", FALSE, NoObject, EmptyDict, "open")
    ELSE IF no_extras
    THEN StatusResult("return", "None", TRUE, status.obj, EmptyDict, "open")
    ELSE StatusParsed(parse_extras(status.obj, convert))

\* The try block: send_request leaves the socket open.
StatusTry(send, convert, no_extras) ==
    IF send.k = "raise"
    THEN StatusResult("raise", send.exc, FALSE, NoObject, EmptyDict, "open")
    ELSE StatusClassified(find_response_of_type(send.response, "MonoXStatus"),
                          convert, no_extras)

\* Mutant: the close follows the try block instead of sitting in a finally clause,
\* so only the path that falls through to the last return reaches it.
CloseAfterTry(tried) ==
    [tried EXCEPT !.socket = IF tried.k = "return" /\ ~tried.found
                             THEN "closed" ELSE "open"]

get_current_status_close_after_try(send, convert, no_extras) ==
    CloseAfterTry(StatusTry(send, convert, no_extras))

\* finally: self.telnet_socket.close()
get_current_status(send, convert, no_extras) ==
    [StatusTry(send, convert, no_extras) EXCEPT !.socket = "closed"]

(***************************************************************************)
(* MonoXAPIAdapter.sysinfo                                                 *)
(***************************************************************************)
SysinfoResult(k, exc, cause, found, obj, socket) ==
    [k |-> k, exc |-> exc, cause |-> cause, found |-> found, obj |-> obj,
     socket |-> socket]

SysinfoClassified(info) ==
    SysinfoResult(info.k, info.exc, "None", info.found, info.obj, "open")

\* The try block with its except clause.
SysinfoTry(send) ==
    IF send.k = "raise"
    THEN IF Catches({"OSError", "RuntimeError"}, send.exc)
         THEN SysinfoResult("raise", "AnycubicException", send.exc, FALSE, NoObject, "open")
         ELSE SysinfoResult("raise", send.exc, "None", FALSE, NoObject, "open")
    ELSE SysinfoClassified(find_response_of_type(send.response, "MonoXSysInfo"))

sysinfo(send) == [SysinfoTry(send) EXCEPT !.socket = "closed"]

(***************************************************************************)
(* AnycubicDataBridge                                                      *)
(***************************************************************************)
RetryThreshold == 5
OnlineLimit == 6

\* What a poll hands to the scheduler: a returned record or a raised exception.
Returned(value) == [k |-> "return", exc |-> "None", cause |-> "None", value |-> value]
Raised(exc, cause) == [k |-> "raise", exc |-> exc, cause |-> cause, value |-> NoObject]

\* The part of the bridge a poll reads and writes, and the poll's result.
PollResult(retries, extras, result, got) ==
    [retries |-> retries, extras |-> extras, result |-> result,
     socket |-> got.socket, adapter |-> [k |-> got.k, exc |-> got.exc]]

\* Mutant: once the hard failure has been raised, the count starts over.
debounce_failure_response_restarting(retries, exception) ==
    [retries |-> IF retries > RetryThreshold THEN 1 ELSE retries + 1,
     result |-> IF retries = RetryThreshold
                THEN Raised("UpdateFailed", exception)
                ELSE Returned(STATUS_OFFLINE)]

\* debounce_failure_response: the counter after the call and the result.
debounce_failure_response(retries, exception) ==
    [retries |-> retries + 1,
     result |-> IF retries + 1 > RetryThreshold
                THEN Raised("UpdateFailed", exception)
                ELSE Returned(STATUS_OFFLINE)]

is_online(retries) == retries < OnlineLimit

\* AnycubicEntityBaseDecorator.available: hasattr(self.bridge.data, "status")
available(bridge_data) == hasattr(bridge_data, API_STATUS)

assumed_state(retries) == retries = 0

\* _maybe_record_status_extras
maybe_record_status_extras(stored, extras, options) ==
    IF ~options[OPT_NO_EXTRA_DATA] THEN Update(stored, extras) ELSE stored

\* hasattr on the dict itself: a dict has its methods as attributes, never its keys.
DictAttributes == {"update", "get", "keys", "values", "items", "pop", "clear", "copy"}

\* _maybe_add_host_to_extras
maybe_add_host_to_extras(stored, options, ip_address) ==
    IF ~options[OPT_NO_EXTRA_DATA] /\ ~(CONF_HOST \in DictAttributes)
    THEN Update(stored, Entry(CONF_HOST, ip_address))
    ELSE stored

get_last_status_extras(stored) == stored

\* _split_ip_and_port: the address up to the first colon.
ip_address(entry) == PyStr(Split(entry.data[CONF_HOST].s, ":")[1])

\* The classes named by the except clause of _async_update_data.
PollCatches == {"AnycubicException", "ConnectionException", "ConnectionRefusedError"}

\* Mutant: a failed poll empties the stored extras.
Debounced_clearing_extras(debounced, stored, got) ==
    PollResult(debounced.retries, EmptyDict, debounced.result, got)

\* return self.debounce_failure_response(ex)
Debounced(debounced, stored, got) ==
    PollResult(debounced.retries, stored, debounced.result, got)

\* Mutant: a successful poll leaves the counter as it was.
UpdateFrom_keeping_retries(retries, stored, entry, got) ==
    IF got.k = "raise"
    THEN IF Catches(PollCatches, got.exc)
         THEN Debounced(debounce_failure_response(retries, got.exc), stored, got)
         ELSE PollResult(retries, stored, Raised(got.exc, "None"), got)
    ELSE IF got.found
    THEN PollResult(retries,
             maybe_add_host_to_extras(
                 maybe_record_status_extras(stored, got.extras, entry.options),
                 entry.options, ip_address(entry)),
             Returned(got.status), got)
    ELSE Debounced(debounce_failure_response(retries, "None"), stored, got)

\* Mutant: a reply without a status record is answered with the offline record
\* and is not counted.
UpdateFrom_not_counting_not_found(retries, stored, entry, got) ==
    IF got.k = "raise"
    THEN IF Catches(PollCatches, got.exc)
         THEN Debounced(debounce_failure_response(retries, got.exc), stored, got)
         ELSE PollResult(retries, stored, Raised(got.exc, "None"), got)
    ELSE IF got.found
    THEN PollResult(0,
             maybe_add_host_to_extras(
                 maybe_record_status_extras(stored, got.extras, entry.options),
                 entry.options, ip_address(entry)),
             Returned(got.status), got)
    ELSE PollResult(retries, stored, Returned(STATUS_OFFLINE), got)

\* _async_update_data, from the outcome of get_current_status on.
UpdateFrom(retries, stored, entry, got) ==
    IF got.k = "raise"
    THEN IF Catches(PollCatches, got.exc)
         THEN Debounced(debounce_failure_response(retries, got.exc), stored, got)
         ELSE PollResult(retries, stored, Raised(got.exc, "None"), got)
    ELSE IF got.found
    THEN PollResult(0,
             maybe_add_host_to_extras(
                 maybe_record_status_extras(stored, got.extras, entry.options),
                 entry.options, ip_address(entry)),
             Returned(got.status), got)
    ELSE Debounced(debounce_failure_response(retries, "None"), stored, got)

\* A poll that requests the status without the flag of the bridge.
async_update_data_without_flag(retries, stored, convert, entry, send) ==
    UpdateFrom(retries, stored, entry,
               get_current_status(send, FALSE, entry.options[OPT_NO_EXTRA_DATA]))

\* _async_update_data
async_update_data(retries, stored, convert, entry, send) ==
    UpdateFrom(retries, stored, entry,
               get_current_status(send, convert, entry.options[OPT_NO_EXTRA_DATA]))

(***************************************************************************)
(* Configuration and construction                                          *)
(***************************************************************************)
\* CONVERT_SECONDS_MODEL in config_entry.data[CONF_MODEL]
Contains(marker, text) ==
    \E i \in 1..(Len(text) - Len(marker) + 1) :
        SubSeq(text, i, i + Len(marker) - 1) = marker

Models ==
    {<<"P", "h", "o", "t", "o", "n", " ", "M", "o", "n", "o", " ", "X">>,
     <<"P", "h", "o", "t", "o", "n", " ", "M", "o", "n", "o", " ", "X", " ", "6", "K">>}

Host == <<"1", "0", ".", "0", ".", "0", ".", "5", ":", "6", "0", "0", "0">>

\* A config entry with its data and its options.
ConfigEntry(host, model, no_extras, hide_ip, hide_extra_sensors) ==
    [data |-> (CONF_HOST :> PyStr(host) @@ CONF_MODEL :> PyStr(model)),
     options |-> (OPT_NO_EXTRA_DATA :> no_extras @@ OPT_HIDE_IP :> hide_ip
                  @@ OPT_HIDE_EXTRA_SENSORS :> hide_extra_sensors)]

\* The entries the config flow creates, with the extras switched on or off.
ConfigEntries ==
    {ConfigEntry(Host, m, n, FALSE, FALSE) : m \in Models, n \in BOOLEAN}

\* No second bridge yet; the entry is the one it will be constructed over.
OtherHost == <<"1", "0", ".", "0", ".", "0", ".", "6", ":", "6", "0", "0", "0">>

OtherEntry == ConfigEntry(OtherHost, CHOOSE m \in Models : Len(m) = 13, FALSE, FALSE, FALSE)

NotConstructed ==
    [constructed |-> FALSE, connection_retries |-> 0, config_entry |-> OtherEntry,
     convert_seconds |-> FALSE]

\* The dict objects a reference can name: the dict of the class, or none.
ClassDict == "AnycubicDataBridge._reported_status_extras"
NothingHeld == [ref |-> "None", seen |-> EmptyDict]

\* The record of an operation: the verb, what the transport did, what the
\* adapter handed back (returned or raised) and what the caller received.
Operation(op, send, adapter, result) ==
    [op |-> op, send |-> send, adapter |-> adapter, result |-> result]

NoOperation ==
    Operation("none", Delivered(Nothing), [k |-> "return", exc |-> "None"],
              Returned(NoObject))

\* AnycubicDataBridge.__init__ over a new MonoXAPIAdapter
Constructed(entry) ==
    /\ config_entry = entry
    /\ convert_seconds = Contains(CONVERT_SECONDS_MODEL, entry.data[CONF_MODEL].s)
    /\ connection_retries = 0
    /\ reported_status_extras = EmptyDict
    /\ telnet_socket = "open"
    /\ last = NoOperation
    /\ fail_run = 0
    /\ last_good = NoObject
    /\ retries_before = 0
    /\ hard_failures = 0
    /\ other_bridge = NotConstructed
    /\ held = NothingHeld
    /\ state_attributes = EmptyDict

\* No call of the classifier or of the parser on its own.
NoFind ==
    [response |-> Nothing, expected_type |-> "MonoXStatus", done |-> FALSE, out |-> NotFound]

NoParse ==
    [given |-> NoObject, convert_seconds |-> FALSE, calls |-> 0,
     raw |-> NoObject,
     first |-> [k |-> "return", exc |-> "None", extras |-> EmptyDict],
     second |-> [k |-> "return", exc |-> "None", extras |-> EmptyDict]]

NoDuration == [raw_value |-> PyInt(0), done |-> FALSE, out |-> Ok(None)]

NoDump == [given |-> None, done |-> FALSE, out |-> Ok(None)]

NoGetstatus == [send |-> Delivered(Nothing), done |-> FALSE, out |-> Returned(NoObject)]

\* The result of async_step_duplicates: returned or raised, the value returned,
\* the abort the flow ends with, and the unique id of the flow.
FlowStep(k, exc, configured, abort, unique_id) ==
    [k |-> k, exc |-> exc, configured |-> configured, abort |-> abort,
     unique_id |-> unique_id]

\* The result of the flow: as the step, and whether async_step_finish ran.
FlowResult(step, abort, later_step) ==
    [k |-> step.k, exc |-> step.exc, abort |-> abort, unique_id |-> step.unique_id,
     later_step |-> later_step]

NoFlow == [device |-> EmptyDict, send |-> Delivered(Nothing), entries |-> {},
           done |-> FALSE,
           out |-> FlowResult(FlowStep("return", "None", FALSE, "None", None),
                              "None", FALSE)]

\* No entry set up: nothing registered.
SetupResult(k, exc, coordinator, platforms) ==
    [k |-> k, exc |-> exc, coordinator |-> coordinator, platforms |-> platforms]

NoSetup == [send |-> Delivered(Nothing), done |-> FALSE,
            out |-> SetupResult("return", "None", FALSE, FALSE)]

Init ==
    /\ \E entry \in ConfigEntries : Constructed(entry)
    /\ find_call = NoFind
    /\ parse_call = NoParse
    /\ duration_call = NoDuration
    /\ dump_call = NoDump
    /\ data = NoObject
    /\ setup_call = NoSetup
    /\ flow_call = NoFlow
    /\ getstatus_call = NoGetstatus

(***************************************************************************)
(* The operations                                                          *)
(***************************************************************************)
\* The poll returned a record it received in this cycle.
Fresh(polled) == polled.result.k = "return" /\ polled.retries = 0

PollTo(send, polled) ==
    /\ Fresh(polled) \/ fail_run < MaxFailRun
    /\ connection_retries' = polled.retries
    /\ reported_status_extras' = polled.extras
    /\ telnet_socket' = polled.socket
    /\ last' = Operation("poll", send, polled.adapter, polled.result)
    /\ retries_before' = connection_retries
    /\ fail_run' = IF Fresh(polled) THEN 0 ELSE fail_run + 1
    /\ last_good' = IF Fresh(polled) THEN polled.result.value ELSE last_good
    /\ hard_failures' = IF Fresh(polled) THEN 0
                        ELSE IF polled.result.k = "raise" /\ polled.result.exc = "UpdateFailed"
                             THEN hard_failures + 1
                             ELSE hard_failures
    /\ data' = IF polled.result.k = "return" THEN polled.result.value ELSE data
    /\ UNCHANGED <<convert_seconds, config_entry, other_bridge, held, state_attributes, find_call, parse_call,
                   duration_call,
                   dump_call,
                   setup_call,
                   flow_call,
                   getstatus_call>>

\* One poll cycle of the scheduler.
Poll(send) ==
    PollTo(send, async_update_data(connection_retries, reported_status_extras,
                                   convert_seconds, config_entry, send))

SysinfoTo(send, info) ==
    /\ telnet_socket' = info.socket
    /\ last' = Operation("sysinfo", send, [k |-> info.k, exc |-> info.exc],
                          IF info.k = "raise" THEN Raised(info.exc, info.cause)
                          ELSE Returned(info.obj))
    /\ retries_before' = connection_retries
    /\ UNCHANGED <<connection_retries, reported_status_extras, convert_seconds,
                   config_entry, fail_run, last_good, hard_failures,
                   other_bridge, held, state_attributes, find_call, parse_call,
                   duration_call,
                   dump_call,
                   data,
                   setup_call,
                   flow_call,
                   getstatus_call>>

\* A sysinfo query on the adapter.
Sysinfo(send) == SysinfoTo(send, sysinfo(send))

PollStep == \E send \in TransportOutcomes : Poll(send)
SysinfoStep == \E send \in TransportOutcomes : Sysinfo(send)

Next == PollStep \/ SysinfoStep

Spec == Init /\ [][Next]_vars

(***************************************************************************)
(* Two bridges and the consumers of the snapshot.  Every bridge reads and  *)
(* updates the dict of the class: no bridge assigns the attribute, so the  *)
(* lookup on the instance always ends at AnycubicDataBridge.               *)
(***************************************************************************)
MaxOtherRetries == 2

\* The contents of the dict object a reference names.
Deref(ref) == IF ref = ClassDict THEN reported_status_extras ELSE EmptyDict

EntityEntries ==
    {ConfigEntry(Host, CHOOSE m \in Models : Len(m) = 16, n, i, x) :
        n \in BOOLEAN, i \in BOOLEAN, x \in BOOLEAN}

InitShared ==
    /\ \E entry \in EntityEntries : Constructed(entry)
    /\ find_call = NoFind
    /\ parse_call = NoParse
    /\ duration_call = NoDuration
    /\ dump_call = NoDump
    /\ data = NoObject
    /\ setup_call = NoSetup
    /\ flow_call = NoFlow
    /\ getstatus_call = NoGetstatus

\* What the transport does in the runs with two bridges.
SharedOutcomes ==
    {Delivered(Single(StatusPrint)), Delivered(Single(StatusStop)),
     Fault("ConnectionRefusedError")}

\* AnycubicDataBridge(hass, api, entry) for the second printer.
Construct ==
    /\ ~other_bridge.constructed
    /\ other_bridge' =
           [other_bridge EXCEPT
               !.constructed = TRUE,
               !.connection_retries = 0,
               !.convert_seconds =
                   Contains(CONVERT_SECONDS_MODEL, other_bridge.config_entry.data[CONF_MODEL].s)]
    /\ UNCHANGED <<connection_retries, reported_status_extras, convert_seconds,
                   config_entry, telnet_socket, last, fail_run, last_good,
                   retries_before, hard_failures, held, state_attributes, find_call, parse_call,
                   duration_call,
                   dump_call,
                   data,
                   setup_call,
                   flow_call,
                   getstatus_call>>

OtherPollTo(polled) ==
    /\ other_bridge.constructed
    /\ polled.retries <= MaxOtherRetries
    /\ other_bridge' = [other_bridge EXCEPT !.connection_retries = polled.retries]
    /\ reported_status_extras' = polled.extras
    /\ UNCHANGED <<connection_retries, convert_seconds, config_entry, telnet_socket,
                   last, fail_run, last_good, retries_before, hard_failures, held,
                   state_attributes, find_call, parse_call,
                   duration_call,
                   dump_call,
                   data,
                   setup_call,
                   flow_call,
                   getstatus_call>>

\* One poll cycle of the second bridge, over its own adapter.
OtherPoll(send) ==
    OtherPollTo(async_update_data(other_bridge.connection_retries,
                                  reported_status_extras,
                                  other_bridge.convert_seconds,
                                  other_bridge.config_entry, send))

\* A consumer calls get_last_status_extras() and keeps what it got.
GetSnapshot ==
    /\ held' = [ref |-> ClassDict, seen |-> get_last_status_extras(reported_status_extras)]
    /\ UNCHANGED <<connection_retries, reported_status_extras, convert_seconds,
                   config_entry, telnet_socket, last, fail_run, last_good,
                   retries_before, hard_failures, other_bridge, state_attributes, find_call, parse_call,
                   duration_call,
                   dump_call,
                   data,
                   setup_call,
                   flow_call,
                   getstatus_call>>

\* extra_state_attributes: the dict it works on is the bridge's own dict unless
\* the options replace it by a new one; the host is written into that dict.
AttributesRef(entry) ==
    IF entry.options[OPT_NO_EXTRA_DATA] \/ ~entry.options[OPT_HIDE_EXTRA_SENSORS]
    THEN "None"
    ELSE ClassDict

WithHost(extras, entry) ==
    IF ~entry.options[OPT_HIDE_IP]
    THEN Update(extras, Entry(CONF_HOST, entry.data[CONF_HOST]))
    ELSE extras

extra_state_attributes(stored, entry) ==
    [returned |-> WithHost(IF AttributesRef(entry) = ClassDict
                           THEN get_last_status_extras(stored) ELSE EmptyDict, entry),
     stored |-> IF AttributesRef(entry) = ClassDict THEN WithHost(stored, entry)
                ELSE stored]

AttributesTo(read) ==
    /\ state_attributes' = read.returned
    /\ reported_status_extras' = read.stored
    /\ UNCHANGED <<connection_retries, convert_seconds, config_entry, telnet_socket,
                   last, fail_run, last_good, retries_before, hard_failures,
                   other_bridge, held, find_call, parse_call,
                   duration_call,
                   dump_call,
                   data,
                   setup_call,
                   flow_call,
                   getstatus_call>>

\* The state machine reads the attributes of an entity of the first bridge.
Attributes == AttributesTo(extra_state_attributes(reported_status_extras, config_entry))

SharedPollStep == \E send \in SharedOutcomes : Poll(send)
OtherPollStep == \E send \in SharedOutcomes : OtherPoll(send)

NextShared ==
    SharedPollStep \/ Construct \/ OtherPollStep \/ GetSnapshot \/ Attributes

SpecShared == InitShared /\ [][NextShared]_vars

(***************************************************************************)
(* The classifier on its own: _find_response_of_type applied to a reply    *)
(* of the transport and an expected type.                                  *)
(***************************************************************************)
MaxBatch == 3

ResponseTypes == {"MonoXStatus", "MonoXSysInfo"}

\* The decoded objects a reply is made of.
ReplyObjects == {StatusStop, StatusPause, SysInfo}

RECURSIVE BatchesOf(_)
BatchesOf(n) ==
    IF n = 0 THEN {<<>>}
    ELSE {Append(items, obj) : items \in BatchesOf(n - 1), obj \in ReplyObjects}

\* One decoded object, a list of up to MaxBatch objects, or no reply object.
ClassifierInputs ==
    {Nothing} \cup {Single(obj) : obj \in ReplyObjects}
    \cup {Batch(items) : items \in UNION {BatchesOf(n) : n \in 0..MaxBatch}}

DefaultEntry == ConfigEntry(Host, CHOOSE m \in Models : Len(m) = 16, FALSE, FALSE, FALSE)

InitClassifier ==
    /\ Constructed(DefaultEntry)
    /\ find_call \in {[NoFind EXCEPT !.response = r, !.expected_type = t] :
                          r \in ClassifierInputs, t \in ResponseTypes}
    /\ parse_call = NoParse
    /\ duration_call = NoDuration
    /\ dump_call = NoDump
    /\ data = NoObject
    /\ setup_call = NoSetup
    /\ flow_call = NoFlow
    /\ getstatus_call = NoGetstatus

\* The call of _find_response_of_type.
Find ==
    /\ ~find_call.done
    /\ find_call' = [find_call EXCEPT
                        !.done = TRUE,
                        !.out = find_response_of_type(find_call.response,
                                                      find_call.expected_type)]
    /\ UNCHANGED <<connection_retries, reported_status_extras, convert_seconds,
                   config_entry, telnet_socket, last, fail_run, last_good,
                   retries_before, hard_failures, other_bridge, held,
                   state_attributes, parse_call, duration_call,
                   dump_call,
                   data,
                   setup_call,
                   flow_call,
                   getstatus_call>>

NextClassifier == Find

SpecClassifier == InitClassifier /\ [][NextClassifier]_vars

(***************************************************************************)
(* The parser on its own: _parse_extras called on a status record, and     *)
(* called again on the same record object.                                 *)
(***************************************************************************)
MaxParseCalls == 2

\* The raw fields the records are drawn over: a well-formed value of each.
WellFormed ==
    "file" :> PyStr(<<"a", ".", "p", "w", "m", "b", "/", "b", ".", "p", "w", "m", "b">>)
    @@ "current_layer" :> PyStr(<<"5">>)
    @@ "total_layers" :> PyStr(<<"1", "0", "0">>)
    @@ "layer_height" :> PyStr(<<"0", ".", "0", "5">>)
    @@ "seconds_elapse" :> PyStr(<<"7", "2", "0", "0">>)
    @@ "seconds_remaining" :> PyStr(<<"3", "6", "0", "0">>)
    @@ "total_volume" :> PyStr(<<"1", "2", "3", "4", "~", "m", "L">>)

\* A second well-formed value of some fields: a layer past the total, times
\* that are no whole minutes and that pass a day, a volume without the tilde.
Alternative ==
    "file" :> PyStr(<<"x", "/", "y">>)
    @@ "current_layer" :> PyStr(<<"1", "2", "0">>)
    @@ "total_layers" :> PyStr(<<"4", "0">>)
    @@ "seconds_elapse" :> PyStr(<<"9", "0">>)
    @@ "seconds_remaining" :> PyStr(<<"9", "0", "0", "6", "1">>)
    @@ "total_volume" :> PyStr(<<"7", "m", "L">>)

\* A value of each field that its coercion does not accept.
Malformed ==
    "file" :> PyStr(<<"c", ".", "p", "w", "m", "b">>)
    @@ "current_layer" :> PyStr(<<"a", "b", "c">>)
    @@ "total_layers" :> PyStr(<<"1", "0", "0", "?">>)
    @@ "layer_height" :> PyStr(<<"0", ",", "0", "5">>)
    @@ "seconds_elapse" :> PyStr(<<"2", "h">>)
    @@ "seconds_remaining" :> PyStr(<<"1", ":", "0", "0">>)

RawFields == DOMAIN WellFormed

\* The value of field a in a record: malformed, alternative or well-formed.
RawValue(a, bad, alt) ==
    IF a = API_STATUS THEN PyStr(<<"p", "r", "i", "n", "t">>)
    ELSE IF a \in bad THEN Malformed[a]
    ELSE IF a \in alt THEN Alternative[a]
    ELSE WellFormed[a]

\* The record with the attributes of present: those of bad malformed, those of
\* alt with their alternative value.
RawRecord(present, bad, alt) ==
    MonoXStatus([a \in present |-> RawValue(a, bad, alt)])

\* Records with a status field and records without one.
\* The records over the fields of present, each field well-formed, malformed
\* or alternative.
RecordsOver(status, present) ==
    UNION {{RawRecord(present \cup status, bad, alt) :
                alt \in SUBSET ((present \ bad) \cap DOMAIN Alternative)} :
           bad \in SUBSET (present \cap DOMAIN Malformed)}

RawRecords ==
    UNION {RecordsOver(status, present) :
           status \in {{}, {API_STATUS}}, present \in SUBSET RawFields}

InitParser ==
    /\ Constructed(DefaultEntry)
    /\ find_call = NoFind
    /\ parse_call \in {[NoParse EXCEPT !.given = r, !.raw = r, !.convert_seconds = c] :
                           r \in RawRecords, c \in BOOLEAN}
    /\ duration_call = NoDuration
    /\ dump_call = NoDump
    /\ data = NoObject
    /\ setup_call = NoSetup
    /\ flow_call = NoFlow
    /\ getstatus_call = NoGetstatus

\* What a call hands back: the mapping, or the exception.
Outcome(parsed) == [k |-> parsed.k, exc |-> parsed.exc, extras |-> parsed.extras]

ParseTo(parsed) ==
    /\ parse_call.calls < MaxParseCalls
    /\ parse_call' = [parse_call EXCEPT
                         !.calls = parse_call.calls + 1,
                         !.raw = parsed.raw,
                         !.first = IF parse_call.calls = 0 THEN Outcome(parsed)
                                   ELSE parse_call.first,
                         !.second = IF parse_call.calls = 0 THEN parse_call.second
                                    ELSE Outcome(parsed)]
    /\ UNCHANGED <<connection_retries, reported_status_extras, convert_seconds,
                   config_entry, telnet_socket, last, fail_run, last_good,
                   retries_before, hard_failures, other_bridge, held,
                   state_attributes, find_call, duration_call,
                   dump_call,
                   data,
                   setup_call,
                   flow_call,
                   getstatus_call>>

\* A call of _parse_extras on the record object as the calls before left it.
Parse == ParseTo(parse_extras(parse_call.raw, parse_call.convert_seconds))

NextParser == Parse

SpecParser == InitParser /\ [][NextParser]_vars

(***************************************************************************)
(* The duration rendering on its own: one call of _seconds_to_hhmmss on    *)
(* each seconds count up to a day and an hour.                             *)
(***************************************************************************)
MaxSeconds == 90061

InitDuration ==
    /\ Constructed(DefaultEntry)
    /\ find_call = NoFind
    /\ parse_call = NoParse
    /\ duration_call \in {[NoDuration EXCEPT !.raw_value = PyInt(s)] : s \in 0..MaxSeconds}
    /\ dump_call = NoDump
    /\ data = NoObject
    /\ setup_call = NoSetup
    /\ flow_call = NoFlow
    /\ getstatus_call = NoGetstatus

\* The call of _seconds_to_hhmmss(raw_value).
Duration ==
    /\ ~duration_call.done
    /\ duration_call' = [duration_call EXCEPT
                            !.done = TRUE,
                            !.out = seconds_to_hhmmss(duration_call.raw_value)]
    /\ UNCHANGED <<connection_retries, reported_status_extras, convert_seconds,
                   config_entry, telnet_socket, last, fail_run, last_good,
                   retries_before, hard_failures, other_bridge, held,
                   state_attributes, find_call, parse_call,
                   dump_call,
                   data,
                   setup_call,
                   flow_call,
                   getstatus_call>>

NextDuration == Duration

SpecDuration == InitDuration /\ [][NextDuration]_vars

(***************************************************************************)
(* diagnostics.safe_dump.  A value is a number, a string, None, a dict     *)
(* with string keys, a list, or an object with its __dict__.               *)
(***************************************************************************)
PyDict(d) == [t |-> "dict", d |-> d]
PyList(items) == [t |-> "list", items |-> items]
PyObject(cls, attrs) == [t |-> "object", cls |-> cls, attrs |-> attrs]

\* str(value): the string form of a value that is no string.
Str(value) == [t |-> "str", of |-> value]

\* json.dumps(value) returns: every part of the value is a JSON type.
RECURSIVE JsonDumps(_)
JsonDumps(value) ==
    CASE value.t \in {"int", "float", "str", "None", "bool"} -> TRUE
      [] value.t = "dict" -> \A key \in DOMAIN value.d : JsonDumps(value.d[key])
      [] value.t = "list" -> \A i \in 1..Len(value.items) : JsonDumps(value.items[i])
      [] OTHER -> FALSE

\* A loop that keeps every value as it is.
DumpedDict_keeping_all(the_dict) ==
    [key \in DOMAIN the_dict |-> the_dict[key]]

\* The loop over the keys: the value itself, or its string form when
\* json.dumps raises on it.
DumpedDict(the_dict) ==
    [key \in DOMAIN the_dict |->
        IF JsonDumps(the_dict[key]) THEN the_dict[key] ELSE Str(the_dict[key])]

safe_dump(the_object) ==
    IF the_object.t \in {"int", "float", "str", "bool", "complex", "None"}
    THEN Ok(the_object)
    ELSE IF the_object.t = "dict" THEN Ok(PyDict(DumpedDict(the_object.d)))
    ELSE IF the_object.t = "object" THEN Ok(PyDict(DumpedDict(the_object.attrs)))
    ELSE Err("AttributeError")

\* The values the dumped objects and mappings are built from.
Socket == PyObject("socket", <<>>)
DumpLeaves == {PyInt(1), PyStr(<<"a">>), None, Socket}
DumpKeys == {"data", "monox"}

\* The dicts over some of the keys with values of the given set.
DictsOver(values) == UNION {[keys -> values] : keys \in SUBSET DumpKeys}

DumpValues ==
    DumpLeaves \cup {PyDict(d) : d \in DictsOver(DumpLeaves)}
        \cup {PyList(<<v>>) : v \in DumpLeaves}

\* A mapping, or an object with that mapping as its __dict__.
DumpInputs ==
    {PyDict(d) : d \in DictsOver(DumpValues)}
        \cup {PyObject("AnycubicDataBridge", d) : d \in DictsOver(DumpValues)}

InitDump ==
    /\ Constructed(DefaultEntry)
    /\ find_call = NoFind
    /\ parse_call = NoParse
    /\ duration_call = NoDuration
    /\ dump_call \in {[NoDump EXCEPT !.given = v] : v \in DumpInputs}
    /\ data = NoObject
    /\ setup_call = NoSetup
    /\ flow_call = NoFlow
    /\ getstatus_call = NoGetstatus

\* The call safe_dump(the_object).
Dump ==
    /\ ~dump_call.done
    /\ dump_call' = [dump_call EXCEPT !.done = TRUE, !.out = safe_dump(dump_call.given)]
    /\ UNCHANGED <<connection_retries, reported_status_extras, convert_seconds,
                   config_entry, telnet_socket, last, fail_run, last_good,
                   retries_before, hard_failures, other_bridge, held,
                   state_attributes, find_call, parse_call, duration_call,
                   data,
                   setup_call,
                   flow_call,
                   getstatus_call>>

NextDump == Dump

SpecDump == InitDump /\ [][NextDump]_vars

(***************************************************************************)
(* async_setup_entry: a new bridge, its first refresh, then the            *)
(* registration of the coordinator and the set-up of the sensor platform.  *)
(***************************************************************************)
\* async_config_entry_first_refresh: an update that raised, whatever it
\* raised, ends the set-up with ConfigEntryNotReady; otherwise the bridge is
\* stored under "coordinator" and the platforms are set up.
SetupFrom(polled) ==
    IF polled.result.k = "raise"
    THEN SetupResult("raise", "ConfigEntryNotReady", FALSE, FALSE)
    ELSE SetupResult("return", "None", TRUE, TRUE)

async_setup_entry(entry, send) ==
    SetupFrom(async_update_data(0, EmptyDict,
                                Contains(CONVERT_SECONDS_MODEL, entry.data[CONF_MODEL].s),
                                entry, send))

\* The entries that can be set up: both models, every combination of options.
SetupEntries ==
    {ConfigEntry(Host, m, n, i, x) :
        m \in Models, n \in BOOLEAN, i \in BOOLEAN, x \in BOOLEAN}

InitSetup ==
    /\ \E entry \in SetupEntries : Constructed(entry)
    /\ find_call = NoFind
    /\ parse_call = NoParse
    /\ duration_call = NoDuration
    /\ dump_call = NoDump
    /\ data = NoObject
    /\ setup_call = NoSetup
    /\ flow_call = NoFlow
    /\ getstatus_call = NoGetstatus

SetupEntry(send) ==
    /\ ~setup_call.done
    /\ setup_call' = [send |-> send, done |-> TRUE,
                      out |-> async_setup_entry(config_entry, send)]
    /\ UNCHANGED <<connection_retries, reported_status_extras, convert_seconds,
                   config_entry, telnet_socket, last, fail_run, last_good,
                   retries_before, hard_failures, other_bridge, held,
                   state_attributes, find_call, parse_call, duration_call,
                   dump_call, data,
                   flow_call,
                   getstatus_call>>

NextSetup == \E send \in TransportOutcomes : SetupEntry(send)

SpecSetup == InitSetup /\ [][NextSetup]_vars

(***************************************************************************)
(* The config flow: async_step_user over async_step_duplicates.            *)
(***************************************************************************)
CONF_SERIAL == "serial_number"
CONF_NAME == "name"
SW_VERSION == "sw_version"
API_MODEL == "model"
API_SERIAL == "serial"
API_FIRMWARE == "firmware"

\* map_sysinfo_to_data: the attributes the reply has, under the keys of the entry.
map_sysinfo_to_data(info) ==
    Update(Update(IF hasattr(info, API_FIRMWARE)
                  THEN Entry(SW_VERSION, info.attrs[API_FIRMWARE]) ELSE EmptyDict,
                  IF hasattr(info, API_MODEL)
                  THEN Update(Entry(CONF_MODEL, info.attrs[API_MODEL]),
                              Entry(CONF_NAME, info.attrs[API_MODEL]))
                  ELSE EmptyDict),
           IF hasattr(info, API_SERIAL)
           THEN Entry(CONF_SERIAL, info.attrs[API_SERIAL]) ELSE EmptyDict)

\* async_step_duplicates after _add_device_info_to_device.  The result of
\* async_abort(reason="not_enough_data") is dropped, so device[CONF_SERIAL]
\* is evaluated without the key; _abort_if_unique_id_configured raises
\* AbortFlow; the abort in the loop is dropped as well, before return False.
Duplicates(device, entries) ==
    IF CONF_SERIAL \notin DOMAIN device
    THEN FlowStep("raise", "KeyError", FALSE, "None", None)
    ELSE IF \E entry \in entries : entry.unique_id = device[CONF_SERIAL]
    THEN FlowStep("raise", "AbortFlow", FALSE, "already_configured", device[CONF_SERIAL])
    ELSE IF \E entry \in entries : entry.serial = device[CONF_SERIAL]
    THEN FlowStep("return", "None", FALSE, "None", device[CONF_SERIAL])
    ELSE FlowStep("return", "None", TRUE, "None", device[CONF_SERIAL])

\* async_step_duplicates: info is what adapter.sysinfo() did.
async_step_duplicates(device, info, entries) ==
    IF info.k = "raise" THEN FlowStep("raise", info.exc, FALSE, "None", None)
    ELSE Duplicates(Update(device, map_sysinfo_to_data(info.obj)), entries)

\* async_step_user with a user input: only ValueError is caught; a device
\* that is not configured goes on to async_step_finish.
async_step_user(step) ==
    IF step.k = "raise" THEN FlowResult(step, step.abort, FALSE)
    ELSE IF ~step.configured THEN FlowResult(step, "duplicate_detection", FALSE)
    ELSE FlowResult(step, "None", TRUE)

\* A sysinfo reply without a serial number.
SysInfoNoSerial ==
    MonoXSysInfo(
        "model" :> PyStr(<<"P", "h", "o", "t", "o", "n">>)
        @@ "firmware" :> PyStr(<<"V", "0", ".", "1">>))

FlowOutcomes == TransportOutcomes \cup {Delivered(Single(SysInfoNoSerial))}

\* The entries the flow finds: none, one of this printer with or without a
\* unique id, one of another printer.
FlowEntry(serial, unique_id) == [serial |-> serial, unique_id |-> unique_id]

CurrentEntries ==
    {{},
     {FlowEntry(SysInfo.attrs[API_SERIAL], SysInfo.attrs[API_SERIAL])},
     {FlowEntry(SysInfo.attrs[API_SERIAL], None)},
     {FlowEntry(PyStr(<<"0", "0", "0", "2">>), PyStr(<<"0", "0", "0", "2">>))}}

InitFlow ==
    /\ Constructed(DefaultEntry)
    /\ find_call = NoFind
    /\ parse_call = NoParse
    /\ duration_call = NoDuration
    /\ dump_call = NoDump
    /\ data = NoObject
    /\ setup_call = NoSetup
    /\ flow_call \in {[NoFlow EXCEPT !.device = Entry(CONF_HOST, PyStr(host)),
                                     !.send = send, !.entries = entries] :
                          host \in {Host, OtherHost}, send \in FlowOutcomes,
                          entries \in CurrentEntries}
    /\ getstatus_call = NoGetstatus

\* The user submits the host: async_step_user(user_input).
StepUser ==
    /\ ~flow_call.done
    /\ flow_call' = [flow_call EXCEPT
                        !.done = TRUE,
                        !.out = async_step_user(
                                    async_step_duplicates(flow_call.device,
                                                          sysinfo(flow_call.send),
                                                          flow_call.entries))]
    /\ UNCHANGED <<connection_retries, reported_status_extras, convert_seconds,
                   config_entry, telnet_socket, last, fail_run, last_good,
                   retries_before, hard_failures, other_bridge, held,
                   state_attributes, find_call, parse_call, duration_call,
                   dump_call, data, setup_call,
                   getstatus_call>>

NextFlow == StepUser

SpecFlow == InitFlow /\ [][NextFlow]_vars

(***************************************************************************)
(* The earlier adapter variant of api.py: MonoXAPI.getstatus and           *)
(* adjust_based_on_time_deltav.                                            *)
(***************************************************************************)
\* The faults of the transport that are OSError or a subclass of it.
OSErrors == {"ConnectionRefusedError", "ConnectionResetError", "TimeoutError", "OSError"}

Adjusted(obj) == [k |-> "return", exc |-> "None", obj |-> obj]
AdjustRaises(exc) == [k |-> "raise", exc |-> exc, obj |-> NoObject]

\* variance_delta >= 1.1, where variance_delta = (elapsed / total * 100) /
\* claimed_percent, for total and claimed_percent other than 0.
VarianceAtLeast(elapsed, total, claimed_percent) ==
    IF total * claimed_percent > 0
    THEN 1000 * elapsed >= 11 * total * claimed_percent
    ELSE 1000 * elapsed <= 11 * total * claimed_percent

\* response.seconds_elapse / 60: a str has no division.
ElapseDivided(response) ==
    CASE response.attrs["seconds_elapse"].t = "int" ->
            Adjusted([response EXCEPT !.attrs["seconds_elapse"] =
                          PyFloat(response.attrs["seconds_elapse"].i, 60)])
      [] response.attrs["seconds_elapse"].t = "float" ->
            Adjusted([response EXCEPT !.attrs["seconds_elapse"] =
                          PyFloat(response.attrs["seconds_elapse"].num,
                                  response.attrs["seconds_elapse"].den * 60)])
      [] OTHER -> AdjustRaises("TypeError")

\* The body of the test on the status, from total = elapsed + remain on.
AdjustFrom(response, elapsed, remain) ==
    IF elapsed + remain = 0 THEN AdjustRaises("ZeroDivisionError")
    ELSE IF ~hasattr(response, "percent_complete") THEN AdjustRaises("AttributeError")
    ELSE IF int(response.attrs["percent_complete"]).k = "raise"
    THEN AdjustRaises(int(response.attrs["percent_complete"]).exc)
    ELSE IF int(response.attrs["percent_complete"]).v = 0
    THEN AdjustRaises("ZeroDivisionError")
    ELSE IF VarianceAtLeast(elapsed, elapsed + remain,
                            int(response.attrs["percent_complete"]).v)
    THEN ElapseDivided(response)
    ELSE Adjusted(response)

adjust_based_on_time_deltav(response) ==
    IF ~hasattr(response, API_STATUS) THEN AdjustRaises("AttributeError")
    ELSE IF response.attrs[API_STATUS] # PyStr(<<"p", "r", "i", "n", "t">>)
    THEN Adjusted(response)
    ELSE IF ~hasattr(response, "seconds_elapse") THEN AdjustRaises("AttributeError")
    ELSE IF int(response.attrs["seconds_elapse"]).k = "raise"
    THEN AdjustRaises(int(response.attrs["seconds_elapse"]).exc)
    ELSE IF ~hasattr(response, "seconds_remaining") THEN AdjustRaises("AttributeError")
    ELSE IF int(response.attrs["seconds_remaining"]).k = "raise"
    THEN AdjustRaises(int(response.attrs["seconds_remaining"]).exc)
    ELSE AdjustFrom(response, int(response.attrs["seconds_elapse"]).v,
                    int(response.attrs["seconds_remaining"]).v)

\* The loop of getstatus over a list: the first MonoXStatus is adjusted and
\* returned; without one the method falls off its end.
GetstatusOfItem(found) ==
    IF ~found.found THEN Returned(NoObject)
    ELSE IF adjust_based_on_time_deltav(found.obj).k = "raise"
    THEN Raised(adjust_based_on_time_deltav(found.obj).exc, "None")
    ELSE Returned(adjust_based_on_time_deltav(found.obj).obj)

\* MonoXAPI.getstatus: send is what send_request did.
getstatus(send) ==
    IF send.k = "raise"
    THEN IF send.exc \in OSErrors THEN Raised("AnycubicMonoXAPILevel", "OSError")
         ELSE Raised(send.exc, "None")
    ELSE IF send.response.shape = "None" THEN Returned(NoObject)
    ELSE IF send.response.shape = "obj" /\ send.response.items[1].type = "MonoXStatus"
    THEN Returned(send.response.items[1])
    ELSE IF send.response.shape # "list" THEN Raised("TypeError", "None")
    ELSE GetstatusOfItem(ScanFrom(send.response.items, 1, "MonoXStatus"))

\* Printing records: the elapsed and remaining seconds and the percentage
\* the printer claims, 0 among each.
PrintingRecords ==
    {MonoXStatus(API_STATUS :> PyStr(<<"p", "r", "i", "n", "t">>)
                 @@ "seconds_elapse" :> elapse
                 @@ "seconds_remaining" :> remaining
                 @@ "percent_complete" :> percent) :
        elapse \in {PyInt(0), PyInt(7200), PyStr(<<"7", "2", "0", "0">>)},
        remaining \in {PyInt(0), PyInt(3600)},
        percent \in {PyStr(<<"0">>), PyStr(<<"1", "0">>), PyStr(<<"6", "6">>)}}

GetstatusReplies ==
    {Nothing, Single(SysInfo), Batch(<<>>), Batch(<<SysInfo>>)}
    \cup UNION {{Single(record), Batch(<<record>>), Batch(<<SysInfo, record>>)} :
                    record \in PrintingRecords \cup {StatusStop}}

GetstatusOutcomes ==
    {Fault(e) : e \in TransportFaults} \cup {Delivered(r) : r \in GetstatusReplies}

InitApi ==
    /\ Constructed(DefaultEntry)
    /\ find_call = NoFind
    /\ parse_call = NoParse
    /\ duration_call = NoDuration
    /\ dump_call = NoDump
    /\ data = NoObject
    /\ setup_call = NoSetup
    /\ flow_call = NoFlow
    /\ getstatus_call \in {[NoGetstatus EXCEPT !.send = send] : send \in GetstatusOutcomes}

\* The call of MonoXAPI.getstatus().
Getstatus ==
    /\ ~getstatus_call.done
    /\ getstatus_call' = [getstatus_call EXCEPT !.done = TRUE,
                                                !.out = getstatus(getstatus_call.send)]
    /\ UNCHANGED <<connection_retries, reported_status_extras, convert_seconds,
                   config_entry, telnet_socket, last, fail_run, last_good,
                   retries_before, hard_failures, other_bridge, held,
                   state_attributes, find_call, parse_call, duration_call,
                   dump_call, data, setup_call, flow_call>>

NextApi == Getstatus

SpecApi == InitApi /\ [][NextApi]_vars

(***************************************************************************)
(* Vocabulary of the properties                                            *)
(***************************************************************************)
Polled == last.op = "poll"

\* The last poll did not hand back a record received in that cycle.
FailedPoll == Polled /\ fail_run > 0

\* What the adapter hands the bridge for a transport outcome, in this configuration.
AdapterGot(send) ==
    get_current_status(send, convert_seconds, config_entry.options[OPT_NO_EXTRA_DATA])

\* The adapter returned the not-found pair (False, False).
NotFoundPair(send) == AdapterGot(send).k = "return" /\ ~AdapterGot(send).found

\* A poll from the current bridge state.
PollFromHere(send) ==
    async_update_data(connection_retries, reported_status_extras, convert_seconds,
                      config_entry, send)

HardFailure(result) == result.k = "raise" /\ result.exc = "UpdateFailed"

(***************************************************************************)
(* C1.  After a successful poll, each of the next 1 to 5 consecutive      *)
(* failing polls returns the record the last successful poll returned;     *)
(* the synthetic offline record is returned only when no poll has ever     *)
(* succeeded.  The code returns the offline record from every debounced    *)
(* failure.                                                                *)
(***************************************************************************)
C1_StaleRecordServed ==
    /\ (FailedPoll /\ fail_run <= RetryThreshold /\ last_good # NoObject)
           => last.result = Returned(last_good)
    /\ (Polled /\ last.result = Returned(STATUS_OFFLINE)) => last_good = NoObject

(***************************************************************************)
(* C2.  A poll raises UpdateFailed exactly when it is a failing poll and   *)
(* at least the 6th consecutive failing poll since the last success or     *)
(* since construction.  A failing poll whose exception the bridge does not *)
(* catch is not counted, so the 6th failing poll may not raise it.         *)
(***************************************************************************)
C2_HardFailureFromSixth ==
    Polled => (HardFailure(last.result) <=> fail_run > RetryThreshold)

(***************************************************************************)
(* C3.  Every poll in which the adapter returned a status record sets the  *)
(* failure counter to 0, whatever it was before, and returns that record.  *)
(***************************************************************************)
C3_SuccessResetsCounter ==
    (Polled /\ AdapterGot(last.send).k = "return" /\ AdapterGot(last.send).found)
        => /\ connection_retries = 0
           /\ last.result = Returned(AdapterGot(last.send).status)

C3_Witness ==
    /\ Polled
    /\ AdapterGot(last.send).k = "return" /\ AdapterGot(last.send).found
    /\ retries_before = RetryThreshold
    /\ connection_retries = 0
    /\ last.result.value = StatusPrint

(***************************************************************************)
(* C4.  is_online() is true exactly when the failure counter is 0.  The    *)
(* code answers true for every counter below 6.                            *)
(***************************************************************************)
C4_OnlineIffCounterZero ==
    is_online(connection_retries) <=> connection_retries = 0

(***************************************************************************)
(* C5.  A failing poll, debounced or hard, leaves the snapshot returned by *)
(* get_last_status_extras() exactly as it was before the poll.             *)
(***************************************************************************)
C5_FailureKeepsSnapshot ==
    [][(last'.op = "poll" /\ fail_run' > 0)
          => get_last_status_extras(reported_status_extras')
                 = get_last_status_extras(reported_status_extras)]_vars

C5_Witness ==
    /\ FailedPoll
    /\ HardFailure(last.result)
    /\ INTERNAL_FILE \in DOMAIN get_last_status_extras(reported_status_extras)

(***************************************************************************)
(* C6.  The only error a poll lets out to the scheduler is UpdateFailed.   *)
(* The code lets out every exception its except clause does not name.      *)
(***************************************************************************)
C6_OnlyHardFailureEscapes ==
    (Polled /\ last.result.k = "raise") => last.result.exc = "UpdateFailed"

(***************************************************************************)
(* C7.  Every transport fault of the status request during a poll          *)
(* increments the failure counter by exactly one.                          *)
(***************************************************************************)
C7_TransportFaultCounts ==
    (Polled /\ last.send.k = "raise") => connection_retries = retries_before + 1

(***************************************************************************)
(* C8.  From every bridge state, a poll whose reply holds no status record *)
(* leaves the bridge in the same state and yields the same outcome         *)
(* (returned record or hard failure) as a poll that failed with a          *)
(* transport fault the bridge catches.                                     *)
(***************************************************************************)
SameOutcome(p, q) ==
    /\ p.retries = q.retries
    /\ p.extras = q.extras
    /\ p.result.k = q.result.k
    /\ p.result.exc = q.result.exc
    /\ p.result.value = q.result.value

C8_NotFoundAsCaughtFault ==
    \A send \in TransportOutcomes, fault \in TransportFaults :
        (NotFoundPair(send) /\ Catches(PollCatches, fault))
            => SameOutcome(PollFromHere(send), PollFromHere(Fault(fault)))

C8_Witness ==
    /\ Polled
    /\ NotFoundPair(last.send)
    /\ retries_before = RetryThreshold
    /\ HardFailure(last.result)
    /\ reported_status_extras # EmptyDict

(***************************************************************************)
(* C9.  Every call of get_current_status and of sysinfo has closed the     *)
(* transport connection when control returns, on every path.               *)
(***************************************************************************)
C9_SocketClosedAfterCall ==
    last.op # "none" => telnet_socket = "closed"

\* The path on which parsing raises.
C9_Witness ==
    /\ Polled
    /\ find_response_of_type(last.send.response, "MonoXStatus").found
    /\ last.adapter.k = "raise"
    /\ last.adapter.exc = "ValueError"
    /\ telnet_socket = "closed"

(***************************************************************************)
(* C10.  For both request verbs, a transport fault raised while sending    *)
(* the request reaches the caller as AnycubicException.  The status verb   *)
(* has no except clause and passes the fault on as it is.                  *)
(***************************************************************************)
C10_FaultBecomesAdapterError ==
    (last.op # "none" /\ last.send.k = "raise")
        => (last.adapter.k = "raise" /\ last.adapter.exc = "AnycubicException")

(***************************************************************************)
(* C11.  Once the failure counter is above 5, no later poll, successful or *)
(* failing, takes the bridge back to a counter of 5 or less.  A poll in    *)
(* which the adapter returns a status record does: it sets the counter to  *)
(* 0 from every value.                                                     *)
(***************************************************************************)
C11_OfflineIsFinal ==
    [][connection_retries > RetryThreshold
          => connection_retries' > RetryThreshold]_vars

\* C11 as amended: from a counter above 5, a poll in which the adapter returns
\* a status record sets the counter to 0, and every other step leaves it above 5.
C11_OnlySuccessLeavesOffline ==
    [][connection_retries > RetryThreshold
          => IF /\ last'.op = "poll"
                /\ AdapterGot(last'.send).k = "return"
                /\ AdapterGot(last'.send).found
             THEN connection_retries' = 0
             ELSE connection_retries' > RetryThreshold]_vars

C11_Witness ==
    /\ Polled
    /\ retries_before > RetryThreshold
    /\ connection_retries = 0
    /\ last.result = Returned(StatusStop)

(***************************************************************************)
(* C12.  During one unbroken run of failing polls, of any length, the hard *)
(* failure is raised to the scheduler at most once.  The code raises it    *)
(* from every counted failure after the fifth.                             *)
(***************************************************************************)
C12_HardFailureOncePerOutage ==
    FailedPoll => hard_failures <= 1

(***************************************************************************)
(* C13.  After every successful poll with extras enabled, the stored       *)
(* snapshot holds exactly what the parser produced from that poll's status *)
(* record, plus the host entry: nothing of an earlier poll survives.  The  *)
(* code updates the stored dict in place and never removes a key.          *)
(***************************************************************************)
C13_SnapshotOfLastPollOnly ==
    (/\ Polled
     /\ AdapterGot(last.send).k = "return"
     /\ AdapterGot(last.send).found
     /\ ~config_entry.options[OPT_NO_EXTRA_DATA])
        => get_last_status_extras(reported_status_extras)
               = Update(AdapterGot(last.send).extras,
                        Entry(CONF_HOST, ip_address(config_entry)))

(***************************************************************************)
(* C14.  Each bridge exclusively owns its state: polls of the first bridge *)
(* leave the snapshot and the failure counter of the second bridge         *)
(* unchanged, and a newly constructed bridge has an empty snapshot and     *)
(* counter 0 whatever the other bridge did before.  The snapshot is the    *)
(* dict of the class, which all bridges write.                             *)
(***************************************************************************)
OtherSnapshot == get_last_status_extras(Deref(ClassDict))

C14_BridgeOwnsItsState ==
    [][/\ (last' # last /\ other_bridge.constructed)
            => /\ OtherSnapshot' = OtherSnapshot
               /\ other_bridge'.connection_retries = other_bridge.connection_retries
       /\ (other_bridge'.constructed /\ ~other_bridge.constructed)
            => /\ OtherSnapshot' = EmptyDict
               /\ other_bridge'.connection_retries = 0]_vars

(***************************************************************************)
(* C15.  A snapshot a consumer obtained through get_last_status_extras()   *)
(* keeps its contents: no later poll and no read of the entity attributes  *)
(* changes the dict already handed out.  The code hands out the stored     *)
(* dict itself and later updates that dict in place.                       *)
(***************************************************************************)
C15_HandedOutSnapshotImmutable ==
    held.ref # "None" => Deref(held.ref) = held.seen

(***************************************************************************)
(* C16.  For every reply given as a list, _find_response_of_type returns   *)
(* the element of the expected type with the smallest index, skipping      *)
(* every element of another type before it; and it returns the reply       *)
(* itself when the reply is one object of the expected type.               *)
(***************************************************************************)
\* Item i of the reply is of the expected type and no item before it is.
FirstMatchAt(i) ==
    /\ find_call.response.items[i].type = find_call.expected_type
    /\ \A j \in 1..(i - 1) : find_call.response.items[j].type # find_call.expected_type

C16_FirstMatchReturned ==
    find_call.done
        => /\ find_call.response.shape = "list"
                => \A i \in 1..Len(find_call.response.items) :
                       FirstMatchAt(i)
                           => /\ find_call.out.k = "return"
                              /\ find_call.out.found
                              /\ find_call.out.obj = find_call.response.items[i]
           /\ (/\ find_call.response.shape = "obj"
               /\ find_call.response.items[1].type = find_call.expected_type)
                => /\ find_call.out.k = "return"
                   /\ find_call.out.found
                   /\ find_call.out.obj = find_call.response.items[1]

\* An unrelated record ahead of two matching ones: the first matching one is returned.
C16_Witness ==
    /\ find_call.done
    /\ find_call.response = Batch(<<SysInfo, StatusPause, StatusStop>>)
    /\ find_call.expected_type = "MonoXStatus"
    /\ find_call.out.found
    /\ find_call.out.obj = StatusPause

(***************************************************************************)
(* C17.  The classifier never raises: for an empty list, a list without a  *)
(* matching element, a single object of the other type and no reply object *)
(* at all it returns the not-found value.  The code iterates whatever is   *)
(* not of the expected type, and iterating what is no list raises.         *)
(***************************************************************************)
\* The reply holds no object of the expected type.
NoMatch ==
    \A i \in 1..Len(find_call.response.items) :
        find_call.response.items[i].type # find_call.expected_type

C17_ClassifierNeverRaises ==
    find_call.done
        => /\ find_call.out.k = "return"
           /\ NoMatch => find_call.out = NotFound

(***************************************************************************)
(* C18.  For every raw record with a status field, the key set of the      *)
(* mapping _parse_extras returns is the same whichever other raw fields    *)
(* are present, the internal-file key included, and an absent field is a   *)
(* key with the value None.  The code stores the internal-file key only    *)
(* for a file value that splits in two.                                    *)
(***************************************************************************)
Parsed ==
    /\ parse_call.calls >= 1
    /\ hasattr(parse_call.given, API_STATUS)
    /\ parse_call.first.k = "return"

\* The keys of the mapping for the record that has no field but the status.
KeysOfBareRecord == DOMAIN parse_extras(RawRecord({API_STATUS}, {}, {}), FALSE).extras

C18_KeySetConstant ==
    Parsed
        => /\ DOMAIN parse_call.first.extras = KeysOfBareRecord
           /\ \A i \in 1..Len(ATTR_LOOKUP_TABLE) :
                  ~hasattr(parse_call.given, ATTR_LOOKUP_TABLE[i][1])
                      => parse_call.first.extras[ATTR_LOOKUP_TABLE[i][2]] = None

(***************************************************************************)
(* C19.  A malformed value in a single raw field never aborts the parse:   *)
(* the call returns a mapping in which that field carries its raw value.   *)
(* The code catches the coercion error inside the loop only; the layer and *)
(* time calculations after the loop and the conversion before it raise.    *)
(***************************************************************************)
MalformedFields ==
    {a \in DOMAIN Malformed :
        hasattr(parse_call.given, a) /\ parse_call.given.attrs[a] = Malformed[a]}

\* The display name of a raw field.
DisplayName(a) ==
    ATTR_LOOKUP_TABLE[CHOOSE i \in 1..Len(ATTR_LOOKUP_TABLE) : ATTR_LOOKUP_TABLE[i][1] = a][2]

C19_MalformedFieldKept ==
    (/\ parse_call.calls >= 1
     /\ hasattr(parse_call.given, API_STATUS)
     /\ Cardinality(MalformedFields) = 1)
        => /\ parse_call.first.k = "return"
           /\ \A a \in MalformedFields :
                  parse_call.first.extras[DisplayName(a)] = Malformed[a]

(***************************************************************************)
(* C20.  Parsing is idempotent: two calls of _parse_extras in a row on the *)
(* same record object, with the same flag, yield identical mappings.  The  *)
(* code writes the converted elapsed time back into the record, so the     *)
(* second call converts it again.                                          *)
(***************************************************************************)
C20_ParseIdempotent ==
    parse_call.calls = 2 => parse_call.second = parse_call.first

(***************************************************************************)
(* C21.  _parse_extras is a pure function: after a call every field of the *)
(* record it was given has the value it had before the call.  The code     *)
(* stores the converted elapsed time in the record when the flag is set.   *)
(***************************************************************************)
C21_RecordLeftUnchanged ==
    parse_call.calls >= 1 => parse_call.raw = parse_call.given

(***************************************************************************)
(* Reading an HH:MM:SS string back: the seconds it denotes.                *)
(***************************************************************************)
IsClock(v) ==
    /\ v.t = "str"
    /\ Len(v.s) = 8
    /\ v.s[3] = ":" /\ v.s[6] = ":"
    /\ \A k \in {1, 2, 4, 5, 7, 8} : IsDigit(v.s[k])
    /\ DigitsVal(SubSeq(v.s, 1, 2)) < 24
    /\ DigitsVal(SubSeq(v.s, 4, 5)) < 60
    /\ DigitsVal(SubSeq(v.s, 7, 8)) < 60

ClockSeconds(v) ==
    DigitsVal(SubSeq(v.s, 1, 2)) * 3600 + DigitsVal(SubSeq(v.s, 4, 5)) * 60
        + DigitsVal(SubSeq(v.s, 7, 8))

\* v is the HH:MM:SS of n seconds, the days dropped.
Renders(v, n) == IsClock(v) /\ ClockSeconds(v) = n % 86400

\* The record given to the parser has field a, holding a run of digits.
GivenNumber(a) ==
    /\ hasattr(parse_call.given, a)
    /\ parse_call.given.attrs[a].t = "str"
    /\ AllDigits(parse_call.given.attrs[a].s)

\* The number that field a of the given record denotes.
GivenValue(a) == DigitsVal(parse_call.given.attrs[a].s)

(***************************************************************************)
(* C22.  With the conversion flag set, the remaining time the parser       *)
(* formats is the seconds_remaining value divided by 60; with the flag not *)
(* set, the elapsed and the remaining time are formatted from the values   *)
(* of the record as they are.  The code divides seconds_elapse instead and *)
(* formats seconds_remaining undivided.                                    *)
(***************************************************************************)
C22_RemainingDividedBy60 ==
    Parsed
        => /\ GivenNumber("seconds_remaining")
                  => Renders(parse_call.first.extras[DisplayName("seconds_remaining")],
                             IF parse_call.convert_seconds
                             THEN GivenValue("seconds_remaining") \div 60
                             ELSE GivenValue("seconds_remaining"))
           /\ (GivenNumber("seconds_elapse") /\ ~parse_call.convert_seconds)
                  => Renders(parse_call.first.extras[DisplayName("seconds_elapse")],
                             GivenValue("seconds_elapse"))

\* A field value that int() reads as a number, and the number it reads.
NumberIn(x) == x.t = "float" \/ (x.t = "str" /\ AllDigits(x.s))
Whole(x) == IF x.t = "float" THEN x.num \div x.den ELSE DigitsVal(x.s)

(***************************************************************************)
(* C23.  For a record with a status field, the total print time of the     *)
(* mapping is the HH:MM:SS of the elapsed plus the remaining seconds the   *)
(* record holds when it has both seconds_elapse and seconds_remaining, and *)
(* None when it lacks either.                                              *)
(***************************************************************************)
C23_TotalPrintTime ==
    (Parsed /\ parse_call.calls = 1)
        => IF /\ hasattr(parse_call.given, "seconds_elapse")
              /\ hasattr(parse_call.given, "seconds_remaining")
           THEN (/\ NumberIn(parse_call.raw.attrs["seconds_elapse"])
                 /\ NumberIn(parse_call.raw.attrs["seconds_remaining"]))
                    => Renders(parse_call.first.extras[ATTR_TOTAL_TIME],
                               Whole(parse_call.raw.attrs["seconds_elapse"])
                                   + Whole(parse_call.raw.attrs["seconds_remaining"]))
           ELSE parse_call.first.extras[ATTR_TOTAL_TIME] = None

\* A sum that passes a day: 90 s elapsed and 90061 s remaining give 01:02:31.
C23_Witness ==
    /\ Parsed /\ parse_call.calls = 1
    /\ ~parse_call.convert_seconds
    /\ hasattr(parse_call.given, "seconds_elapse")
    /\ hasattr(parse_call.given, "seconds_remaining")
    /\ parse_call.given.attrs["seconds_elapse"] = Alternative["seconds_elapse"]
    /\ parse_call.given.attrs["seconds_remaining"] = Alternative["seconds_remaining"]
    /\ parse_call.first.extras[ATTR_TOTAL_TIME]
           = PyStr(<<"0", "1", ":", "0", "2", ":", "3", "1">>)

(***************************************************************************)
(* C24.  For a record with a status field that has current_layer = c and   *)
(* total_layers = t, the remaining-layers value of the mapping is exactly  *)
(* t - c; when the record lacks either field the value is None.            *)
(***************************************************************************)
C24_RemainingLayers ==
    Parsed
        => IF /\ hasattr(parse_call.given, "current_layer")
              /\ hasattr(parse_call.given, "total_layers")
           THEN (GivenNumber("current_layer") /\ GivenNumber("total_layers"))
                    => parse_call.first.extras[ATTR_REMAINING_LAYERS]
                           = PyInt(GivenValue("total_layers") - GivenValue("current_layer"))
           ELSE parse_call.first.extras[ATTR_REMAINING_LAYERS] = None

\* Layer 120 of 100: the difference is -20.
C24_Witness ==
    /\ Parsed
    /\ hasattr(parse_call.given, "current_layer")
    /\ hasattr(parse_call.given, "total_layers")
    /\ parse_call.given.attrs["current_layer"] = Alternative["current_layer"]
    /\ parse_call.given.attrs["total_layers"] = WellFormed["total_layers"]
    /\ parse_call.first.extras[ATTR_REMAINING_LAYERS] = PyInt(-20)

(***************************************************************************)
(* C25.  A total_volume value made of digits followed by the unit marker,  *)
(* such as "1234~mL", is stored in the mapping as the integer the digits   *)
(* denote.  The code stores the string that is left when the marker is     *)
(* removed.                                                                *)
(***************************************************************************)
UnitMarker == API_TILDE \o <<"m", "L">>

\* The record given to the parser has a total_volume of digits and the marker.
GivenVolume ==
    /\ hasattr(parse_call.given, "total_volume")
    /\ Len(parse_call.given.attrs["total_volume"].s) > Len(UnitMarker)
    /\ \E n \in 1..Len(parse_call.given.attrs["total_volume"].s) :
           /\ AllDigits(SubSeq(parse_call.given.attrs["total_volume"].s, 1, n))
           /\ parse_call.given.attrs["total_volume"].s
                  = SubSeq(parse_call.given.attrs["total_volume"].s, 1, n) \o UnitMarker

\* The digits of that total_volume.
VolumeDigits ==
    SubSeq(parse_call.given.attrs["total_volume"].s, 1,
           Len(parse_call.given.attrs["total_volume"].s) - Len(UnitMarker))

C25_VolumeIsInteger ==
    (Parsed /\ GivenVolume)
        => parse_call.first.extras[DisplayName("total_volume")]
               = PyInt(DigitsVal(VolumeDigits))

(***************************************************************************)
(* C26.  For a record that has no status field, _parse_extras returns the  *)
(* empty mapping, whatever other fields the record has, well-formed or     *)
(* not, and whatever the conversion flag is.                               *)
(***************************************************************************)
C26_NoStatusNoExtras ==
    (parse_call.calls >= 1 /\ ~hasattr(parse_call.given, API_STATUS))
        => /\ parse_call.first.k = "return"
           /\ parse_call.first.extras = EmptyDict

\* A record without status whose elapsed time is malformed, parsed with the flag set.
C26_Witness ==
    /\ parse_call.calls >= 1
    /\ parse_call.convert_seconds
    /\ ~hasattr(parse_call.given, API_STATUS)
    /\ hasattr(parse_call.given, "seconds_elapse")
    /\ parse_call.given.attrs["seconds_elapse"] = Malformed["seconds_elapse"]
    /\ hasattr(parse_call.given, "file")
    /\ parse_call.first.k = "return"
    /\ parse_call.first.extras = EmptyDict

(***************************************************************************)
(* C27.  _seconds_to_hhmmss renders an integer seconds count s as the      *)
(* HH:MM:SS of s modulo 86400: 3661 renders as "01:01:01", and a count of  *)
(* 86400 or more wraps to the time of day and does not raise.              *)
(***************************************************************************)
C27_DurationWraps ==
    duration_call.done
        => /\ duration_call.out.k = "return"
           /\ Renders(duration_call.out.v, duration_call.raw_value.i)
           /\ duration_call.raw_value.i = 3661
                  => duration_call.out.v = PyStr(<<"0", "1", ":", "0", "1", ":", "0", "1">>)

\* A day and 3661 seconds render as 3661 seconds do.
C27_Witness ==
    /\ duration_call.done
    /\ duration_call.raw_value = PyInt(86400 + 3661)
    /\ duration_call.out = Ok(PyStr(<<"0", "1", ":", "0", "1", ":", "0", "1">>))

(***************************************************************************)
(* C28.  A file value external/internal with exactly one delimiter, such   *)
(* as "a.pwmb/b.pwmb", is stored as the part before the delimiter under    *)
(* the file key and the part after it under the internal-file key.         *)
(***************************************************************************)
\* The positions of the delimiter in the file value of the given record.
Delimiters ==
    {k \in 1..Len(parse_call.given.attrs["file"].s) :
        parse_call.given.attrs["file"].s[k] = API_VALUE_SPLIT_CHAR}

C28_FileSplit ==
    (/\ Parsed
     /\ hasattr(parse_call.given, "file")
     /\ Cardinality(Delimiters) = 1)
        => \A k \in Delimiters :
               /\ parse_call.first.extras[DisplayName("file")]
                      = PyStr(SubSeq(parse_call.given.attrs["file"].s, 1, k - 1))
               /\ parse_call.first.extras[INTERNAL_FILE]
                      = PyStr(SubSeq(parse_call.given.attrs["file"].s, k + 1,
                                     Len(parse_call.given.attrs["file"].s)))

C28_Witness ==
    /\ Parsed
    /\ hasattr(parse_call.given, "file")
    /\ parse_call.given.attrs["file"] = WellFormed["file"]
    /\ parse_call.first.extras[DisplayName("file")]
           = PyStr(<<"a", ".", "p", "w", "m", "b">>)
    /\ parse_call.first.extras[INTERNAL_FILE]
           = PyStr(<<"b", ".", "p", "w", "m", "b">>)

(***************************************************************************)
(* C29.  The unit-conversion flag of a bridge is set at construction: it   *)
(* is true exactly when the configured model string contains the           *)
(* seconds-unit model marker.  No poll, successful or failing, changes it, *)
(* and every status request is issued with it: the elapsed time a          *)
(* successful poll records is divided by 60 exactly for such a model.      *)
(***************************************************************************)
ModelHasMarker == Contains(CONVERT_SECONDS_MODEL, config_entry.data[CONF_MODEL].s)

\* The status record the classifier selects from the reply of the last operation.
Selected == find_response_of_type(last.send.response, "MonoXStatus")

\* The last operation is a successful poll that parsed a record with an elapsed time.
PolledElapsed ==
    /\ Polled /\ fail_run = 0
    /\ ~config_entry.options[OPT_NO_EXTRA_DATA]
    /\ Selected.k = "return" /\ Selected.found
    /\ hasattr(Selected.obj, API_SECONDS_ELAPSE)

ElapsedSent == int(Selected.obj.attrs[API_SECONDS_ELAPSE]).v

C29_FlagAsConstructed ==
    /\ convert_seconds = ModelHasMarker
    /\ PolledElapsed
           => Renders(reported_status_extras[DisplayName(API_SECONDS_ELAPSE)],
                      IF ModelHasMarker THEN ElapsedSent \div 60 ELSE ElapsedSent)

C29_PolicyFixed ==
    /\ []C29_FlagAsConstructed
    /\ [][convert_seconds' = convert_seconds /\ config_entry' = config_entry]_vars

\* A bridge of a 6K model polled a record with 7200 elapsed: 00:02:00 is recorded.
C29_Witness ==
    /\ PolledElapsed
    /\ convert_seconds
    /\ ElapsedSent = 7200
    /\ connection_retries = 0 /\ retries_before > 0
    /\ reported_status_extras[DisplayName(API_SECONDS_ELAPSE)]
           = PyStr(<<"0", "0", ":", "0", "2", ":", "0", "0">>)

(***************************************************************************)
(* C30.  A poll of a bridge that has obtained no sysinfo reply yet issues  *)
(* the sysinfo query, and a bridge that has obtained one never issues it   *)
(* again.  The bridge keeps no sysinfo, and its poll makes one adapter     *)
(* call, get_current_status, which sends the status request only: no poll  *)
(* ever issues the sysinfo query.                                          *)
(***************************************************************************)
\* The requests the adapter sends in an operation of the bridge or on the adapter.
RequestsOf(op) ==
    CASE op = "poll" -> <<"getstatus">>
      [] op = "sysinfo" -> <<"sysinfo">>
      [] OTHER -> <<>>

C30_SysinfoUntilObtained ==
    Polled => \E k \in 1..Len(RequestsOf(last.op)) : RequestsOf(last.op)[k] = "sysinfo"

(***************************************************************************)
(* C31.  While the no-extras option is set, a poll does not invoke         *)
(* _parse_extras and does not add or change an entry of the stored extras: *)
(* a successful poll returns the status record as the classifier selected  *)
(* it and resets the failure counter, and a failing poll that the bridge   *)
(* handles increases the counter by one.                                   *)
(***************************************************************************)
NoExtras == config_entry.options[OPT_NO_EXTRA_DATA]

\* The last poll ended in the debounce: the offline record or the hard failure.
HandledFailure ==
    Polled /\ (last.result = Returned(STATUS_OFFLINE) \/ HardFailure(last.result))

C31_StatusWithoutExtras ==
    NoExtras
        => /\ (Polled /\ Selected.k = "return" /\ Selected.found)
                  => /\ last.result = Returned(Selected.obj)
                     /\ connection_retries = 0
           /\ HandledFailure => connection_retries = retries_before + 1

C31_NoExtrasNoRecording ==
    /\ []C31_StatusWithoutExtras
    /\ [][(NoExtras /\ SharedPollStep)
              => reported_status_extras' = reported_status_extras]_vars

\* A poll with the option set returned the printing record, unconverted, while
\* the dict holds entries that the poll left alone.
C31_Witness ==
    /\ NoExtras
    /\ convert_seconds
    /\ Polled /\ fail_run = 0 /\ retries_before > 0
    /\ last.result = Returned(StatusPrint)
    /\ reported_status_extras # EmptyDict

(***************************************************************************)
(* C32.  safe_dump returns, for an object or a mapping, a mapping in which *)
(* every value that json.dumps does not take, at any nesting depth, is     *)
(* replaced by its string form and every value it takes is kept; the       *)
(* result is JSON-serialisable and the call does not raise.  The code      *)
(* looks at the values of the top level only: a dict or a list that holds  *)
(* such a value somewhere is replaced as a whole by its string form.       *)
(***************************************************************************)
\* The mapping that is dumped: the dict itself, or the __dict__ of the object.
GivenDict ==
    IF dump_call.given.t = "dict" THEN dump_call.given.d ELSE dump_call.given.attrs

\* The conversion at every depth.
RECURSIVE Deep(_)
Deep(value) ==
    CASE value.t = "dict" -> PyDict([key \in DOMAIN value.d |-> Deep(value.d[key])])
      [] value.t = "list" ->
            PyList([i \in 1..Len(value.items) |-> Deep(value.items[i])])
      [] value.t \in {"int", "float", "str", "None", "bool"} -> value
      [] OTHER -> Str(value)

C33_HostHidden ==
    config_entry.options[OPT_HIDE_IP] => CONF_HOST \notin DOMAIN state_attributes

(***************************************************************************)
(* C34.  An entity is not available while the bridge is not connected or   *)
(* has reported an error: after a poll that ended in the hard failure, and *)
(* while the bridge serves the offline record, available is false.  The    *)
(* code tests that the data of the bridge has a status attribute, which    *)
(* the offline record has.                                                 *)
(***************************************************************************)
C34_UnavailableWhenOffline ==
    HandledFailure => ~available(data)

(***************************************************************************)
(* C35.  An entity reports an assumed state exactly while the device is    *)
(* unconfirmed, that is while the bridge counts 1 to 5 consecutive failed  *)
(* polls, and does not report one when the last poll succeeded.  The code  *)
(* returns true exactly when the counter is 0.                             *)
(***************************************************************************)
C35_AssumedWhileUnconfirmed ==
    Polled
        => (assumed_state(connection_retries)
                <=> (connection_retries >= 1 /\ connection_retries <= RetryThreshold))

(***************************************************************************)
(* C36.  If the printer cannot be reached during the first refresh of      *)
(* async_setup_entry, the set-up does not complete: no coordinator is      *)
(* registered and no sensor platform is set up.  The first poll turns a    *)
(* refused or reset connection into the offline record, so the first       *)
(* refresh succeeds and the set-up completes.                              *)
(***************************************************************************)
C36_SetupFailsWhenUnreachable ==
    (setup_call.done /\ setup_call.send.k = "raise")
        => /\ setup_call.out.k = "raise"
           /\ ~setup_call.out.coordinator
           /\ ~setup_call.out.platforms

(***************************************************************************)
(* C37.  When the queried device yields no serial number,                  *)
(* async_step_duplicates ends the flow with the abort not_enough_data: no  *)
(* other error is raised, no unique id is set and no later step runs.  The *)
(* code drops the result of async_abort and goes on to read the missing    *)
(* key.                                                                    *)
(***************************************************************************)
\* The sysinfo query of the flow returned, and what it returned has no serial number.
NoSerialNumber ==
    /\ sysinfo(flow_call.send).k = "return"
    /\ ~hasattr(sysinfo(flow_call.send).obj, API_SERIAL)

C37_AbortsWithoutSerial ==
    (flow_call.done /\ NoSerialNumber)
        => /\ flow_call.out.k = "return"
           /\ flow_call.out.abort = "not_enough_data"
           /\ flow_call.out.unique_id = None
           /\ ~flow_call.out.later_step

(***************************************************************************)
(* C38.  In every reachable bridge state the consecutive-failure counter   *)
(* is a non-negative integer equal to the number of failing polls since    *)
(* the most recent successful poll (or since construction); each failing   *)
(* poll the bridge handles increases it by exactly one, also beyond the    *)
(* threshold.  The code leaves the counter alone when a poll fails with an *)
(* exception its except clause does not name.                              *)
(***************************************************************************)
C38_CounterCountsFailures ==
    /\ connection_retries \in Nat
    /\ connection_retries = fail_run
    /\ HandledFailure => connection_retries = retries_before + 1

(***************************************************************************)
(* C39.  With the conversion flag set, the elapsed and the remaining value *)
(* that _parse_extras adds up for the total print time are in the same     *)
(* unit: both were divided by 60 or neither was.  The code divides         *)
(* seconds_elapse alone.                                                   *)
(***************************************************************************)
\* The parser replaced field a of the record by its value divided by 60.
DividedBy60(a) ==
    /\ parse_call.raw.attrs[a].t = "float"
    /\ parse_call.raw.attrs[a] # parse_call.given.attrs[a]

C39_SummedInOneUnit ==
    (/\ Parsed /\ parse_call.calls = 1
     /\ parse_call.convert_seconds
     /\ GivenNumber("seconds_elapse")
     /\ GivenNumber("seconds_remaining"))
        => (DividedBy60("seconds_elapse") <=> DividedBy60("seconds_remaining"))

(***************************************************************************)
(* C40.  In the earlier adapter variant, MonoXAPI.getstatus returns the    *)
(* first status record of the reply without raising for every reply that   *)
(* contains one, including a printing record whose percent_complete is 0   *)
(* or whose elapsed plus remaining is 0, and applies the time-unit         *)
(* adjustment the same way to a single status object and to a batch.  The  *)
(* code divides by both numbers and adjusts the items of a batch only.     *)
(***************************************************************************)
\* The first status record of the reply of the call.
FirstStatus == find_response_of_type(getstatus_call.send.response, "MonoXStatus")

\* The call was given a reply that contains a status record.
GotStatusReply ==
    /\ getstatus_call.done
    /\ getstatus_call.send.k = "return"
    /\ FirstStatus.k = "return" /\ FirstStatus.found

\* Record b is record a but for the elapsed seconds.
SameButElapse(a, b) ==
    /\ a.type = b.type
    /\ DOMAIN a.attrs = DOMAIN b.attrs
    /\ \A n \in DOMAIN a.attrs \ {"seconds_elapse"} : a.attrs[n] = b.attrs[n]

C40_GetstatusTotal ==
    GotStatusReply
        => /\ getstatus_call.out.k = "return"
           /\ SameButElapse(FirstStatus.obj, getstatus_call.out.value)
           /\ getstatus_call.out = getstatus(Delivered(Single(FirstStatus.obj)))
           /\ getstatus_call.out = getstatus(Delivered(Batch(<<FirstStatus.obj>>)))
====
